---- MODULE Spec2Model ----
(***************************************************************************)
(* Document-analysis pipeline of lonardonifabio/tech_documents.            *)
(*                                                                         *)
(* The module models the scan / process / persist loop of the processor    *)
(* scripts (fixed_ollama_processor.py and its subclass                     *)
(* incremental_ollama_processor.py, ollama_processor.py,                   *)
(* fallback_processor.py, process_documents.py) together with the          *)
(* multi-pass analysis, aggregation and validation functions of            *)
(* fixed_ollama_processor.py.                                              *)
(*                                                                         *)
(* Text on which the code calls lower(), replace(), `in` or len() is a     *)
(* sequence of one-character strings; text that is only compared for       *)
(* equality (category, keyword, difficulty) is a TLA+ string.              *)
(***************************************************************************)
EXTENDS Integers, Sequences, FiniteSets, TLC

\* ------------------------------------------------------------------------
\* Bounds of the model
\* ------------------------------------------------------------------------
\* number of distinct contents (content hashes) a source file can take
NumHashes == 2
\* number of runs of a processor in one behaviour
MaxRuns == 2
\* number of changes other processes make to the documents directory
MaxEnv == 1
\* DocumentChunker(chunk_size, overlap_size) and max_pages, scaled down from
\* 2000, 200 and 20 words to texts of a few words
ChunkSize == 2
OverlapSize == 1
MaxPages == 3

\* ------------------------------------------------------------------------
\* Characters and strings (Python str semantics)
\* ------------------------------------------------------------------------
\* the characters that occur in the model, in code-point order
Alphabet ==
  <<" ", "-", ".", "0", "1", "2", "3", "4", "5", "6", "7", "8", "9",
    "A", "B", "C", "D", "E", "F", "G", "H", "I", "J", "K", "L", "M",
    "N", "O", "P", "Q", "R", "S", "T", "U", "V", "W", "X", "Y", "Z", "_",
    "a", "b", "c", "d", "e", "f", "g", "h", "i", "j", "k", "l", "m",
    "n", "o", "p", "q", "r", "s", "t", "u", "v", "w", "x", "y", "z">>

UpperCase ==
  <<"A", "B", "C", "D", "E", "F", "G", "H", "I", "J", "K", "L", "M",
    "N", "O", "P", "Q", "R", "S", "T", "U", "V", "W", "X", "Y", "Z">>

LowerCase ==
  <<"a", "b", "c", "d", "e", "f", "g", "h", "i", "j", "k", "l", "m",
    "n", "o", "p", "q", "r", "s", "t", "u", "v", "w", "x", "y", "z">>

\* ord(c)
Ord(c) == CHOOSE i \in 1..Len(Alphabet) : Alphabet[i] = c

\* one character of str.lower()
LowerChar(c) ==
  IF \E i \in 1..26 : UpperCase[i] = c
  THEN LowerCase[CHOOSE i \in 1..26 : UpperCase[i] = c]
  ELSE c

\* str.lower()
Lower(s) == [i \in 1..Len(s) |-> LowerChar(s[i])]

\* `w in s` for strings
Contains(s, w) ==
  \E i \in 1..(Len(s) - Len(w) + 1) : SubSeq(s, i, i + Len(w) - 1) = w

\* any(word in s for word in words)
AnyIn(s, words) == \E w \in words : Contains(s, w)

\* str.replace(old, new): non-overlapping occurrences, left to right
RECURSIVE Replace(_, _, _)
Replace(s, old, new) ==
  IF Len(s) < Len(old) THEN s
  ELSE IF SubSeq(s, 1, Len(old)) = old
       THEN new \o Replace(SubSeq(s, Len(old) + 1, Len(s)), old, new)
       ELSE <<s[1]>> \o Replace(Tail(s), old, new)

\* s < t for strings (lexicographic on code points)
RECURSIVE StrLess(_, _)
StrLess(s, t) ==
  IF t = <<>> THEN FALSE
  ELSE IF s = <<>> THEN TRUE
  ELSE IF s[1] = t[1] THEN StrLess(Tail(s), Tail(t))
  ELSE Ord(s[1]) < Ord(t[1])

\* list(dict.fromkeys(xs)): duplicates removed, first occurrence kept
RECURSIVE Dedup(_)
Dedup(xs) ==
  IF xs = <<>> THEN <<>>
  ELSE LET front == Dedup(SubSeq(xs, 1, Len(xs) - 1))
           x     == xs[Len(xs)]
       IN IF \E i \in 1..Len(front) : front[i] = x THEN front
          ELSE Append(front, x)

\* xs[:n]
Take(xs, n) == SubSeq(xs, 1, IF Len(xs) < n THEN Len(xs) ELSE n)

\* greatest common divisor, used to give a float quotient one representation
RECURSIVE Gcd(_, _)
Gcd(a, b) == IF b = 0 THEN a ELSE Gcd(b, a % b)

\* the float num / den (den > 0), as a reduced fraction
Frac(num, den) ==
  IF num = 0 THEN <<0, 1>>
  ELSE <<num \div Gcd(num, den), den \div Gcd(num, den)>>

\* ------------------------------------------------------------------------
\* Source files
\* ------------------------------------------------------------------------
FileIntro == "intro_to_machine_learning.pdf"

FileAi == "ai-basics.pdf"

\* the file names that can appear in the documents directory
FileNames == {FileIntro, FileAi}

\* the characters of a file name
Chars(f) ==
  CASE f = FileIntro ->
         <<"i", "n", "t", "r", "o", "_", "t", "o", "_", "m", "a", "c", "h",
           "i", "n", "e", "_", "l", "e", "a", "r", "n", "i", "n", "g", ".",
           "p", "d", "f">>
    [] f = FileAi ->
         <<"a", "i", "-", "b", "a", "s", "i", "c", "s", ".", "p", "d", "f">>

\* the string made of a sequence of characters
RECURSIVE Str(_)
Str(s) == IF s = <<>> THEN "" ELSE s[1] \o Str(Tail(s))

\* the words tested against file names, as strings
W_pdf == <<".", "p", "d", "f">>
W_ai == <<"a", "i">>
W_artificial == <<"a", "r", "t", "i", "f", "i", "c", "i", "a", "l">>
W_machine == <<"m", "a", "c", "h", "i", "n", "e">>
W_learning == <<"l", "e", "a", "r", "n", "i", "n", "g">>
W_ml == <<"m", "l">>
W_data == <<"d", "a", "t", "a">>
W_analytics == <<"a", "n", "a", "l", "y", "t", "i", "c", "s">>
W_business == <<"b", "u", "s", "i", "n", "e", "s", "s">>
W_neural == <<"n", "e", "u", "r", "a", "l">>
W_deep == <<"d", "e", "e", "p">>
W_python == <<"p", "y", "t", "h", "o", "n">>
W_basic == <<"b", "a", "s", "i", "c">>
W_intro == <<"i", "n", "t", "r", "o">>
W_beginner == <<"b", "e", "g", "i", "n", "n", "e", "r">>
W_fundamentals == <<"f", "u", "n", "d", "a", "m", "e", "n", "t", "a", "l", "s">>
W_advanced == <<"a", "d", "v", "a", "n", "c", "e", "d">>
W_expert == <<"e", "x", "p", "e", "r", "t">>
W_comprehensive ==
  <<"c", "o", "m", "p", "r", "e", "h", "e", "n", "s", "i", "v", "e">>
W_intermediate == <<"i", "n", "t", "e", "r", "m", "e", "d", "i", "a", "t", "e">>

\* ------------------------------------------------------------------------
\* JSON values and dicts
\* ------------------------------------------------------------------------
\* None
JNone == [t |-> "none"]
\* a dict; f maps the keys that are present to their values
JObj(f) == [t |-> "object", f |-> f]
\* a list of n items
JArr(n) == [t |-> "array", n |-> n]
\* a number
JNum(n) == [t |-> "number", n |-> n]
\* a str
JStr(s) == [t |-> "string", s |-> s]

\* {}
EmptyDict == [k \in {} |-> 0]

\* bool(v)
Truthy(v) ==
  CASE v.t = "none"   -> FALSE
    [] v.t = "object" -> DOMAIN v.f # {}
    [] v.t = "array"  -> v.n > 0
    [] v.t = "number" -> v.n # 0
    [] v.t = "string" -> v.s # <<>>

\* d.get(key, default)
Get(d, key, default) == IF key \in DOMAIN d THEN d[key] ELSE default

\* an exception propagating out of a function
Raise == [ok |-> FALSE]
\* a normal return
Return(v) == [ok |-> TRUE, val |-> v]

\* ------------------------------------------------------------------------
\* Text-generation service and multi-pass analysis (MultiPassAnalyzer)
\* ------------------------------------------------------------------------
\* What OllamaClient.generate_response hands back for one prompt:
\*   None after every attempt raised, or the stripped response text.
\* A text is described by what json.loads and the brace search make of it:
\*   "empty"      the empty string
\*   "prose"      text without braces that is not JSON
\*   "truncated"  an opening brace, no closing brace, not JSON
\*   "json"       the whole text parses as the JSON value `value`
\*   "wrapped"    not JSON as a whole; the text between the first "{" and
\*                the last "}" parses as the object `value`
ServiceFailure == [kind |-> "failure", form |-> "none", value |-> JNone]
ServiceText(form, value) == [kind |-> "text", form |-> form, value |-> value]

\* MultiPassAnalyzer._extract_json
_extract_json(response) ==
  CASE response.form = "empty"     -> JNone
    [] response.form = "json"      -> response.value
    [] response.form = "wrapped"   -> response.value
    [] response.form = "prose"     -> JNone
    [] response.form = "truncated" -> JNone

\* MultiPassAnalyzer._analyze_pass: the response of the service for one
\* pass, parsed
_analyze_pass(response) ==
  IF response.kind = "failure" \/ response.form = "empty"
  THEN JNone
  ELSE _extract_json(response)

\* MultiPassAnalyzer.analyze_chunk; responses maps each pass name to the
\* response of the service for that pass
analyze_chunk(responses) ==
  LET basic_info     == _analyze_pass(responses["basic_info"])
      keywords_info  == _analyze_pass(responses["keywords"])
      technical_info == _analyze_pass(responses["technical"])
      business_info  == _analyze_pass(responses["business"])
      successful_passes ==
        (IF Truthy(basic_info) THEN 1 ELSE 0)
        + (IF Truthy(keywords_info) THEN 1 ELSE 0)
        + (IF Truthy(technical_info) THEN 1 ELSE 0)
        + (IF Truthy(business_info) THEN 1 ELSE 0)
  IN \* basic_info.get / keywords_info.get on a value that is not a dict
     IF \/ Truthy(basic_info) /\ basic_info.t # "object"
        \/ Truthy(keywords_info) /\ keywords_info.t # "object"
     THEN Raise
     ELSE Return(
       [title |-> IF Truthy(basic_info)
                  THEN Get(basic_info.f, "title", <<>>) ELSE <<>>,
        authors |-> IF Truthy(basic_info)
                    THEN Get(basic_info.f, "authors", <<>>) ELSE <<>>,
        summary |-> IF Truthy(basic_info)
                    THEN Get(basic_info.f, "summary", <<>>) ELSE <<>>,
        category |-> IF Truthy(basic_info)
                     THEN Get(basic_info.f, "category", "") ELSE "",
        keywords |-> IF Truthy(keywords_info)
                     THEN Get(keywords_info.f, "keywords", <<>>) ELSE <<>>,
        key_concepts |-> IF Truthy(keywords_info)
                         THEN Get(keywords_info.f, "key_concepts", <<>>)
                         ELSE <<>>,
        technical_details |-> IF Truthy(technical_info)
                              THEN technical_info ELSE JObj(EmptyDict),
        business_context |-> IF Truthy(business_info)
                             THEN business_info ELSE JObj(EmptyDict),
        confidence_score |-> Frac(successful_passes, 4)])

\* ------------------------------------------------------------------------
\* ResultAggregator
\* ------------------------------------------------------------------------
\* a / b < c / d for fractions with positive denominators
FracLess(x, y) == x[1] * y[2] < y[1] * x[2]

\* x + y for fractions
FracAdd(x, y) == Frac(x[1] * y[2] + y[1] * x[2], x[2] * y[2])

\* sum(r.confidence_score for r in chunk_results)
RECURSIVE SumConfidence(_)
SumConfidence(rs) ==
  IF rs = <<>> THEN <<0, 1>>
  ELSE FracAdd(rs[1].confidence_score, SumConfidence(Tail(rs)))

\* the last result that no other result exceeds
BestResult_last(rs) ==
  rs[CHOOSE i \in 1..Len(rs) :
       /\ \A j \in 1..Len(rs) :
            ~FracLess(rs[i].confidence_score, rs[j].confidence_score)
       /\ \A j \in (i + 1)..Len(rs) :
            FracLess(rs[j].confidence_score, rs[i].confidence_score)]

\* max(chunk_results, key=lambda r: r.confidence_score): the first result
\* that no other result exceeds
BestResult(rs) ==
  rs[CHOOSE i \in 1..Len(rs) :
       /\ \A j \in 1..Len(rs) :
            ~FracLess(rs[i].confidence_score, rs[j].confidence_score)
       /\ \A j \in 1..(i - 1) :
            FracLess(rs[j].confidence_score, rs[i].confidence_score)]

\* all_keywords after the loop: the keyword lists of the chunks, in order
RECURSIVE AllKeywords(_)
AllKeywords(rs) ==
  IF rs = <<>> THEN <<>> ELSE rs[1].keywords \o AllKeywords(Tail(rs))

\* the values the chunks give for technical_details["complexity_level"],
\* in chunk order (each is a JSON value)
RECURSIVE ComplexityValues(_)
ComplexityValues(rs) ==
  IF rs = <<>> THEN <<>>
  ELSE (IF "complexity_level" \in DOMAIN rs[1].technical_details.f
        THEN <<rs[1].technical_details.f["complexity_level"]>>
        ELSE <<>>)
       \o ComplexityValues(Tail(rs))

\* complexity_levels: the values that are non-empty strings
RECURSIVE ComplexityLevels(_)
ComplexityLevels(vs) ==
  IF vs = <<>> THEN <<>>
  ELSE (IF vs[1].t = "string" /\ vs[1].s # <<>> THEN <<vs[1].s>> ELSE <<>>)
       \o ComplexityLevels(Tail(vs))

\* number of occurrences of x in xs
Count(xs, x) == Cardinality({i \in 1..Len(xs) : xs[i] = x})

\* the most frequent element, the one counted last among those with the
\* highest count
MostCommon_last(xs) ==
  xs[CHOOSE i \in 1..Len(xs) :
       /\ \A j \in 1..Len(xs) : Count(xs, xs[j]) <= Count(xs, xs[i])
       /\ \A j \in 1..Len(xs) :
            j > i /\ Count(xs, xs[j]) = Count(xs, xs[i]) => xs[j] = xs[i]]

\* Counter(xs).most_common(1)[0][0]: the most frequent element, the one
\* counted first among those with the highest count
MostCommon(xs) ==
  xs[CHOOSE i \in 1..Len(xs) :
       /\ \A j \in 1..Len(xs) : Count(xs, xs[j]) <= Count(xs, xs[i])
       /\ \A j \in 1..(i - 1) : Count(xs, xs[j]) < Count(xs, xs[i])]

\* all_technical, restricted to the key complexity_level: the voted level
\* when a chunk gave a non-empty string, the merged list of the values when
\* chunks gave only other values, no key when no chunk gave one
AllTechnical(rs) ==
  LET vs     == ComplexityValues(rs)
      levels == ComplexityLevels(vs)
  IN IF levels # <<>>
     THEN [k \in {"complexity_level"} |-> JStr(MostCommon(levels))]
     ELSE IF vs # <<>>
          THEN [k \in {"complexity_level"} |-> JArr(Len(Take(Dedup(vs), 5)))]
          ELSE EmptyDict

\* all_concepts after the loop: the concept lists of the chunks, in order
RECURSIVE AllConcepts(_)
AllConcepts(rs) ==
  IF rs = <<>> THEN <<>> ELSE rs[1].key_concepts \o AllConcepts(Tail(rs))

\* the values the chunks give for a key of business_context, in chunk order
RECURSIVE BusinessValues(_, _)
BusinessValues(rs, key) ==
  IF rs = <<>> THEN <<>>
  ELSE (IF key \in DOMAIN rs[1].business_context.f
        THEN <<rs[1].business_context.f[key]>>
        ELSE <<>>)
       \o BusinessValues(Tail(rs), key)

\* all_business: for each key a chunk gave, the merged list of its values
\* (none of them a list), without duplicates, at most five
AllBusiness(rs) ==
  [key \in UNION {DOMAIN rs[i].business_context.f : i \in 1..Len(rs)} |->
     Take(Dedup(BusinessValues(rs, key)), 5)]

\* ResultAggregator._get_empty_result
_get_empty_result ==
  [title |-> <<>>, summary |-> <<>>, category |-> "Technology",
   keywords |-> <<>>, key_concepts |-> <<>>,
   technical_details |-> EmptyDict, business_context |-> EmptyDict,
   confidence_score |-> <<0, 1>>]

\* ResultAggregator.aggregate_results
aggregate_results(chunk_results) ==
  IF chunk_results = <<>> THEN Return(_get_empty_result)
  ELSE IF \E i \in 1..Len(chunk_results) :
            \* .items() on a value that is not a dict
            \/ chunk_results[i].technical_details.t # "object"
            \/ chunk_results[i].business_context.t # "object"
       THEN Raise
       ELSE LET best_result == BestResult(chunk_results)
            IN Return(
              [title |-> best_result.title,
               authors |-> best_result.authors,
               summary |-> best_result.summary,
               category |-> best_result.category,
               keywords |-> Take(Dedup(AllKeywords(chunk_results)), 10),
               key_concepts |->
                 Take(Dedup(AllConcepts(chunk_results)), 10),
               technical_details |-> AllTechnical(chunk_results),
               business_context |-> AllBusiness(chunk_results),
               confidence_score |->
                 LET total == SumConfidence(chunk_results)
                 IN Frac(total[1], total[2] * Len(chunk_results))])

\* ------------------------------------------------------------------------
\* FixedOllamaDocumentProcessor: validation and file-name heuristics
\* ------------------------------------------------------------------------
\* filename.replace('.pdf', '').replace('_', ' ').replace('-', ' ')
CleanTitle(filename) ==
  Replace(Replace(Replace(filename, W_pdf, <<>>), <<"_">>, <<" ">>),
          <<"-">>, <<" ">>)

\* FixedOllamaDocumentProcessor._infer_category_from_filename
_infer_category_from_filename(filename) ==
  LET filename_lower == Lower(filename)
  IN IF AnyIn(filename_lower, {W_ai, W_artificial}) THEN "AI"
     ELSE IF AnyIn(filename_lower, {W_machine, W_learning, W_ml})
          THEN "Machine Learning"
     ELSE IF AnyIn(filename_lower, {W_data, W_analytics}) THEN "Data Science"
     ELSE IF AnyIn(filename_lower, {W_business}) THEN "Business"
     ELSE "Technology"

\* keyword_map of _extract_keywords_from_filename, in insertion order
keyword_map ==
  << <<W_ai, "AI">>, <<W_machine, "Machine Learning">>,
     <<W_data, "Data Science">>, <<W_learning, "Machine Learning">>,
     <<W_neural, "Neural Networks">>, <<W_deep, "Deep Learning">>,
     <<W_analytics, "Analytics">>, <<W_business, "Business">>,
     <<W_python, "Python">> >>

\* the loop of _extract_keywords_from_filename over the first n entries
RECURSIVE KeywordsUpTo(_, _)
KeywordsUpTo(filename_lower, n) ==
  IF n = 0 THEN <<>>
  ELSE LET keywords == KeywordsUpTo(filename_lower, n - 1)
           key      == keyword_map[n][1]
           value    == keyword_map[n][2]
       IN IF /\ Contains(filename_lower, key)
             /\ ~\E i \in 1..Len(keywords) : keywords[i] = value
          THEN Append(keywords, value)
          ELSE keywords

\* FixedOllamaDocumentProcessor._extract_keywords_from_filename
_extract_keywords_from_filename(filename) ==
  LET keywords == KeywordsUpTo(Lower(filename), Len(keyword_map))
  IN IF keywords # <<>> THEN keywords ELSE <<"Technology">>

\* complexity_mapping of _map_complexity_to_difficulty
complexity_mapping ==
  << <<W_basic, "Basic">>, <<W_intermediate, "Intermediate">>,
     <<W_advanced, "Advanced">> >>

\* FixedOllamaDocumentProcessor._map_complexity_to_difficulty
_map_complexity_to_difficulty(complexity_level) ==
  LET key == Lower(complexity_level)
  IN IF \E i \in 1..Len(complexity_mapping) : complexity_mapping[i][1] = key
     THEN complexity_mapping[
            CHOOSE i \in 1..Len(complexity_mapping) :
              complexity_mapping[i][1] = key][2]
     ELSE "Intermediate"

valid_categories ==
  {"AI", "Machine Learning", "Data Science", "Analytics", "Business",
   "Technology", "Research"}

\* FixedOllamaDocumentProcessor._validate_and_enhance_analysis
_validate_and_enhance_analysis(analysis, filename) ==
  LET title == IF Get(analysis, "title", <<>>) = <<>>
               THEN CleanTitle(filename) ELSE analysis["title"]
      category == IF Get(analysis, "category", "") \notin valid_categories
                  THEN _infer_category_from_filename(filename)
                  ELSE analysis["category"]
      keywords == IF Get(analysis, "keywords", <<>>) = <<>>
                  THEN _extract_keywords_from_filename(filename)
                  ELSE analysis["keywords"]
      complexity_level ==
        Get(Get(analysis, "technical_details", EmptyDict),
            "complexity_level", JStr(W_intermediate))
  IN \* complexity_level.lower() on a value that is not a str
     IF complexity_level.t # "string" THEN Raise
     ELSE Return(
       [title |-> title,
        authors |-> Get(analysis, "authors", <<>>),
        category |-> category,
        keywords |-> keywords,
        technical_details |-> Get(analysis, "technical_details", EmptyDict),
        confidence_score |-> Get(analysis, "confidence_score", <<0, 1>>),
        difficulty |-> _map_complexity_to_difficulty(complexity_level.s)])

\* FixedOllamaDocumentProcessor._get_fallback_analysis
_get_fallback_analysis(filename) ==
  LET filename_lower == Lower(filename)
      complexity_level ==
        IF AnyIn(filename_lower,
                 {W_basic, W_intro, W_beginner, W_fundamentals})
        THEN W_basic
        ELSE IF AnyIn(filename_lower,
                      {W_advanced, W_expert, W_deep, W_comprehensive})
             THEN W_advanced
             ELSE W_intermediate
  IN [title |-> CleanTitle(filename),
      category |-> _infer_category_from_filename(filename),
      keywords |-> _extract_keywords_from_filename(filename),
      technical_details |->
        [k \in {"complexity_level"} |-> JStr(complexity_level)],
      confidence_score |-> Frac(1, 2)]

\* ------------------------------------------------------------------------
\* DocumentChunker
\* ------------------------------------------------------------------------
\* words[a:b] with Python's 0-based, end-exclusive indices
Slice(words, a, b) == SubSeq(words, a + 1, b)

Min(a, b) == IF a < b THEN a ELSE b
Max(a, b) == IF a > b THEN a ELSE b

\* the loop test with one more round: chunk_num <= max_pages
LoopContinues_one_more(words, start_idx, chunk_num, max_pages) ==
  start_idx < Len(words) /\ chunk_num <= max_pages

\* while start_idx < len(words) and chunk_num < max_pages
LoopContinues(words, start_idx, chunk_num, max_pages) ==
  start_idx < Len(words) /\ chunk_num < max_pages

\* the step of the loop skipping one word
NextStart_skipping(start_idx, chunk_size) == start_idx + chunk_size + 1

\* start_idx += self.chunk_size
NextStart(start_idx, chunk_size) == start_idx + chunk_size

\* the while loop of chunk_document
RECURSIVE ChunkLoop(_, _, _, _, _, _)
ChunkLoop(words, start_idx, chunk_num, chunk_size, overlap_size, max_pages) ==
  IF ~LoopContinues(words, start_idx, chunk_num, max_pages) THEN <<>>
  ELSE LET end_idx == Min(start_idx + chunk_size, Len(words))
           chunk_words == Slice(words, start_idx, end_idx)
           overlap_words ==
             Slice(words, Max(0, start_idx - overlap_size), start_idx)
           chunk == IF start_idx > 0
                    THEN [content |-> overlap_words \o chunk_words,
                          overlap_with_previous |-> TRUE]
                    ELSE [content |-> chunk_words,
                          overlap_with_previous |-> FALSE]
       IN <<chunk>> \o ChunkLoop(words, NextStart(start_idx, chunk_size),
                                 chunk_num + 1, chunk_size, overlap_size,
                                 max_pages)

\* DocumentChunker.chunk_document; a text is the sequence of its words
chunk_document(words, chunk_size, overlap_size, max_pages) ==
  IF Len(words) <= chunk_size
  THEN <<[content |-> words, overlap_with_previous |-> FALSE]>>
  ELSE ChunkLoop(words, 0, 0, chunk_size, overlap_size, max_pages)

\* ------------------------------------------------------------------------
\* FixedOllamaDocumentProcessor: analysis of one document
\* ------------------------------------------------------------------------
\* the loop of analyze_document_enhanced over the first n chunks; service
\* maps a chunk number to the responses of the service for its four passes
RECURSIVE ChunkResults(_, _)
ChunkResults(n, service) ==
  IF n = 0 THEN Return(<<>>)
  ELSE LET before == ChunkResults(n - 1, service)
           result == analyze_chunk(service[n])
       IN IF ~before.ok \/ ~result.ok THEN Raise
          ELSE Return(Append(before.val, result.val))

\* FixedOllamaDocumentProcessor.analyze_document_enhanced
analyze_document_enhanced(text, filename, service) ==
  IF text = <<>> THEN Return(_get_fallback_analysis(filename))
  ELSE LET chunks == chunk_document(text, ChunkSize, OverlapSize, MaxPages)
           chunk_results == ChunkResults(Len(chunks), service)
       IN IF ~chunk_results.ok THEN Raise
          ELSE LET final_analysis == aggregate_results(chunk_results.val)
               IN IF ~final_analysis.ok THEN Raise
                  ELSE _validate_and_enhance_analysis(final_analysis.val,
                                                      filename)

\* FallbackDocumentProcessor.process_document and
\* OllamaDocumentProcessor.process_document: the fields of the record that
\* the merge reads (filename) and the state of the file it was built from;
\* the heuristics that fill the other fields are not modelled
process_document_plain(filename, content) ==
  IF content = 0 THEN Raise  \* filepath.stat()
  ELSE Return([filename |-> filename, content |-> content])

\* ------------------------------------------------------------------------
\* Merge helpers of the scan loops
\* ------------------------------------------------------------------------
\* [doc for doc in documents if doc['filename'] != filename]
RECURSIVE WithoutFilename(_, _)
WithoutFilename(documents, filename) ==
  IF documents = <<>> THEN <<>>
  ELSE IF documents[1].filename # filename
       THEN <<documents[1]>> \o WithoutFilename(Tail(documents), filename)
       ELSE WithoutFilename(Tail(documents), filename)

\* the loop "for file_path_str in files_to_remove" applied to the documents
RECURSIVE WithoutFilenames(_, _)
WithoutFilenames(documents, filenames) ==
  IF documents = <<>> THEN <<>>
  ELSE IF documents[1].filename \notin filenames
       THEN <<documents[1]>> \o WithoutFilenames(Tail(documents), filenames)
       ELSE WithoutFilenames(Tail(documents), filenames)

\* f < g for every two file names, evaluated once
FilenameLess ==
  [f \in FileNames |-> [g \in FileNames |-> StrLess(Chars(f), Chars(g))]]

\* one insertion of a stable sort on x['filename']
InsertByFilename(sorted, doc) ==
  LET k == Cardinality({i \in 1..Len(sorted) :
                          ~FilenameLess[doc.filename][sorted[i].filename]})
  IN SubSeq(sorted, 1, k) \o <<doc>> \o SubSeq(sorted, k + 1, Len(sorted))

\* documents.sort(key=lambda x: x['filename'])
RECURSIVE SortByFilename(_)
SortByFilename(documents) ==
  IF documents = <<>> THEN <<>>
  ELSE InsertByFilename(
         SortByFilename(SubSeq(documents, 1, Len(documents) - 1)),
         documents[Len(documents)])

\* ------------------------------------------------------------------------
\* The service as a run meets it
\* ------------------------------------------------------------------------
PassSet == {"basic_info", "keywords", "technical", "business"}

\* a JSON object the model answers each pass with when it works
GoodResponses ==
  [basic_info |->
     ServiceText("json", JObj([title |-> <<"M", "L">>, category |-> "AI"])),
   keywords |->
     ServiceText("wrapped",
       JObj([keywords |-> <<"k1", "k2", "k3", "k4", "k5", "k6">>])),
   technical |->
     ServiceText("json", JObj([complexity_level |-> JStr(W_basic)])),
   business |->
     ServiceText("json", JObj([industry |-> "Technology"]))]

\* the behaviours of the service during the analysis of one document
Services ==
  {"failure", "empty", "prose", "truncated", "array", "string", "number",
   "good"}

\* what a behaviour answers to one pass
Respond(service, pass) ==
  CASE service = "failure"   -> ServiceFailure
    [] service = "empty"     -> ServiceText("empty", JNone)
    [] service = "prose"     -> ServiceText("prose", JNone)
    [] service = "truncated" -> ServiceText("truncated", JNone)
    [] service = "array"     -> ServiceText("json", JArr(1))
    [] service = "string"    -> ServiceText("json", JStr(<<"o", "k">>))
    [] service = "number"    -> ServiceText("json", JNum(7))
    [] service = "good"      -> GoodResponses[pass]

\* for each chunk, the response to each of its four passes
Responses(service) ==
  [n \in 1..MaxPages |-> [pass \in PassSet |-> Respond(service, pass)]]

\* The contents a file can have are numbered 1..NumHashes, and the number
\* stands for the content hash.  extract_pdf_text is a function of the
\* content: content 1 is a file no text can be extracted from, content h > 1
\* a file whose text has 3 * (h - 1) words.
Contents == 1..NumHashes

extract_pdf_text(content) ==
  IF content = 0 THEN <<>>  \* open() raises, the exception is caught
  ELSE [i \in 1..(3 * (content - 1)) |-> "w"]

\* analyze_document_enhanced for every file name, text and behaviour of the
\* service, evaluated once
AnalysisOf ==
  [f \in FileNames |-> [content \in 0..NumHashes |-> [service \in Services |->
     analyze_document_enhanced(extract_pdf_text(content), Chars(f),
                               Responses(service))]]]

\* FixedOllamaDocumentProcessor.process_document.  content is the state of
\* the file when it is read (0: the file is gone); the record keeps content
\* for the fields taken from stat() (upload_date, file_size)
process_document(filename, content, service) ==
  LET analysis == AnalysisOf[filename][content][service]
  IN IF ~analysis.ok THEN Raise
     ELSE IF content = 0 THEN Raise  \* filepath.stat()
     ELSE Return(
       [filename |-> filename,
        content |-> content,
        title |-> Str(Get(analysis.val, "title", <<>>)),
        authors |-> Get(analysis.val, "authors", <<>>),
        keywords |-> Get(analysis.val, "keywords", <<>>),
        category |-> Get(analysis.val, "category", "Technology"),
        difficulty |-> Get(analysis.val, "difficulty", "Intermediate"),
        confidence_score |-> Get(analysis.val, "confidence_score", <<0, 1>>)])

\* ------------------------------------------------------------------------
\* State
\* ------------------------------------------------------------------------
\* the processor scripts; one of them is the deployed pipeline
Variants == {"fixed", "incremental", "ollama", "fallback", "legacy"}

VARIABLES
  files,               \* documents/: file name -> content hash, 0 if absent
  registry,            \* processed_files.json: file name -> hash, 0 if none
  corpusData,          \* data/documents.json
  corpusDist,          \* dist/data/documents.json
  variant,             \* the processor script that is run
  documents_dir_exists, \* the documents directory exists
  pc,                  \* position of the run in scan_and_process
  force_reprocess,     \* argument of the run
  processed_files,     \* local: registry as loaded and updated
  existing_documents,  \* local
  new_documents,       \* local
  updated,             \* local
  pdf_files,           \* local: files of the glob not yet visited
  cur,                 \* local: filepath and current_hash of the iteration
  all_documents,       \* local: the list handed to save_documents
  files_to_process,    \* local (incremental): files still to process
  successful_processes, \* local (incremental)
  runs,                \* history: number of runs started
  envSteps,            \* history: number of changes made by other processes
  outcome,             \* history: how the last run ended
  forced,              \* history: force_reprocess of the last run started
  ensured,             \* history: what ensure_model_available returned to
                       \*   the last run started (TRUE if it was not called)
  failed,              \* history: a file of the run failed or was skipped
  startRegistry,       \* history: registry when the run started
  selected,            \* history: files the run decided to process
  scanned,             \* history: file name -> hash the scan computed, or 0
  computed,            \* history: records the run has computed
  envQuiet,            \* history: no file changed since the run started
  quiet                \* history: the run is not forced, the run before it
                       \*   completed, and no file has changed since that
                       \*   run started

\* One call of a function of the analysis, taken on its own, and one
\* MultiPassAnalyzer asking the service prompt after prompt
VARIABLES
  call,                \* the function that is called and its arguments
  ret,                 \* what the call returned or raised; NoRet before
  gpc,                 \* position in OllamaClient.generate_response
  attempt,             \* generate_response: the loop variable
  service_calls,       \* history: client.generate calls for this prompt
  sleeps,              \* history: the time.sleep durations for this prompt
  response,            \* what generate_response returned for this prompt
  answered             \* what generate_response returned for the prompts
                       \*   before this one

durable == <<files, registry, corpusData, corpusDist, variant,
             documents_dir_exists>>
locals == <<force_reprocess, processed_files, existing_documents,
            new_documents, updated, pdf_files, cur, all_documents,
            files_to_process, successful_processes>>
locals_but_all == <<force_reprocess, processed_files, existing_documents,
                    new_documents, updated, pdf_files, cur,
                    files_to_process, successful_processes>>
runHistory == <<outcome, forced, ensured, failed, startRegistry,
                selected, scanned, computed>>
pipeline == <<durable, pc, locals, runs, envSteps, runHistory, envQuiet,
              quiet>>
function_call == <<call, ret>>
prompting == <<gpc, attempt, service_calls, sleeps, response, answered>>
vars == <<pipeline, function_call, prompting>>

NoCall == [fn |-> "none"]
NoRet == [state |-> "none"]

\* no function is being called on its own
NoFunctionCall == call = NoCall /\ ret = NoRet

\* no analyzer is prompting
NoPrompting ==
  /\ gpc = "idle"
  /\ attempt = 0
  /\ service_calls = <<>>
  /\ sleeps = <<>>
  /\ response = NoRet
  /\ answered = <<>>

NoRegistry == [f \in FileNames |-> 0]
NoCur == [name |-> "", hash |-> 0]

\* the variants whose run takes a force_reprocess argument
TakesForce == {"fixed", "incremental"}
\* the variants whose run starts with ensure_model_available
ChecksModel == {"fixed", "incremental", "ollama"}
\* the variants whose run starts with the check of the documents directory;
\* process_documents globs it, and the glob of a missing directory is empty
ChecksDir == {"fixed", "incremental", "ollama", "fallback"}
\* the variants that analyse with FixedOllamaDocumentProcessor
Analyses == {"fixed", "incremental"}
\* the variants that run the scan loop of scan_and_process
Batch == {"fixed", "ollama", "fallback"}

\* the copy of the corpus that load_existing_documents reads
CorpusRead == IF variant = "legacy" THEN corpusDist ELSE corpusData

\* the pipeline before its first run
PipelineInit ==
  /\ documents_dir_exists \in BOOLEAN
  /\ files \in [FileNames -> {0, 1}]
  /\ ~documents_dir_exists => files = NoRegistry
  /\ registry = NoRegistry
  /\ corpusData = <<>>
  /\ corpusDist = <<>>
  /\ variant \in Variants
  /\ pc = "idle"
  /\ force_reprocess = FALSE
  /\ processed_files = NoRegistry
  /\ existing_documents = <<>>
  /\ new_documents = <<>>
  /\ updated = FALSE
  /\ pdf_files = {}
  /\ cur = NoCur
  /\ all_documents = <<>>
  /\ files_to_process = <<>>
  /\ successful_processes = 0
  /\ runs = 0
  /\ envSteps = 0
  /\ outcome = "none"
  /\ forced = FALSE
  /\ ensured = TRUE
  /\ failed = FALSE
  /\ startRegistry = NoRegistry
  /\ selected = {}
  /\ scanned = NoRegistry
  /\ computed = {}
  /\ envQuiet = TRUE
  /\ quiet = FALSE

Init ==
  /\ PipelineInit
  /\ NoFunctionCall
  /\ NoPrompting

\* the run returns or dies: its local variables are gone
EndRun(result) ==
  /\ pc' = "idle"
  /\ outcome' = result
  /\ force_reprocess' = FALSE
  /\ processed_files' = NoRegistry
  /\ existing_documents' = <<>>
  /\ new_documents' = <<>>
  /\ updated' = FALSE
  /\ pdf_files' = {}
  /\ cur' = NoCur
  /\ all_documents' = <<>>
  /\ files_to_process' = <<>>
  /\ successful_processes' = 0

\* ------------------------------------------------------------------------
\* Other processes changing the documents directory
\* ------------------------------------------------------------------------
\* a file is created or its content replaced
WriteFile(f, h) ==
  /\ envSteps < MaxEnv
  /\ documents_dir_exists
  /\ files[f] # h
  /\ files' = [files EXCEPT ![f] = h]
  /\ envSteps' = envSteps + 1
  /\ envQuiet' = FALSE
  /\ quiet' = FALSE
  /\ UNCHANGED <<registry, corpusData, corpusDist, variant, documents_dir_exists, pc, locals,
                 runs, runHistory>>
  /\ UNCHANGED <<function_call, prompting>>

\* a file is deleted
DeleteFile(f) ==
  /\ envSteps < MaxEnv
  /\ files[f] # 0
  /\ files' = [files EXCEPT ![f] = 0]
  /\ envSteps' = envSteps + 1
  /\ envQuiet' = FALSE
  /\ quiet' = FALSE
  /\ UNCHANGED <<registry, corpusData, corpusDist, variant, documents_dir_exists, pc, locals,
                 runs, runHistory>>
  /\ UNCHANGED <<function_call, prompting>>

\* ------------------------------------------------------------------------
\* A run: scan_and_process, scan_and_process_incrementally,
\* process_documents
\* ------------------------------------------------------------------------
\* the set-up checks with the check of the model left out
SetupFails_without_model_check(v, dir_exists, available) ==
  v \in ChecksDir /\ ~dir_exists

\* the two early returns of scan_and_process and of
\* scan_and_process_incrementally: the documents directory does not exist,
\* or ensure_model_available returned False
SetupFails(v, dir_exists, available) ==
  \/ v \in ChecksDir /\ ~dir_exists
  \/ v \in ChecksModel /\ ~available

\* The run starts: set-up checks, the two loads and the glob.
\* available is the result of ensure_model_available, which is called by
\* the variants that have it, after the check of the directory.
StartRun(force, available) ==
  /\ pc = "idle"
  /\ runs < MaxRuns
  /\ force => variant \in TakesForce
  /\ ~available => variant \in ChecksModel /\ documents_dir_exists
  /\ ensured' = available
  /\ runs' = runs + 1
  /\ startRegistry' = registry
  /\ selected' = {}
  /\ scanned' = NoRegistry
  /\ computed' = {}
  /\ failed' = FALSE
  /\ forced' = force
  /\ quiet' = (~force /\ outcome \in {"updated", "unchanged"} /\ ~failed
                /\ envQuiet)
  /\ envQuiet' = TRUE
  /\ IF SetupFails(variant, documents_dir_exists, available)
     THEN EndRun("setup_failed")
     ELSE /\ pc' = "scan"
          /\ outcome' = "running"
          /\ force_reprocess' = force
          /\ processed_files' = registry
          /\ existing_documents' =
               IF variant = "fixed" /\ force THEN <<>> ELSE CorpusRead
          /\ new_documents' = <<>>
          /\ updated' = FALSE
          /\ pdf_files' = {f \in FileNames : files[f] # 0}
          /\ cur' = NoCur
          /\ all_documents' = <<>>
          /\ files_to_process' = <<>>
          /\ successful_processes' = 0
  /\ UNCHANGED <<durable, envSteps>>
  /\ UNCHANGED <<function_call, prompting>>

\* NeedsProcessing with the hash test inverted (== for !=)
NeedsProcessing_inverted(force, known, f, current_hash) ==
  force \/ known[f] = 0 \/ known[f] = current_hash

\* the test of the scan loop of scan_and_process and of
\* scan_and_process_incrementally: does the file need processing
NeedsProcessing(force, known, f, current_hash) ==
  force \/ known[f] = 0 \/ known[f] # current_hash

\* is_already_processed without the comparison of the hashes
is_already_processed_any_hash(known, f, file_hash) ==
  known[f] # 0

\* DocumentProcessor.is_already_processed
is_already_processed(known, f, file_hash) ==
  known[f] # 0 /\ known[f] = file_hash

\* One iteration of the scan loop up to the decision: is_file, get_file_hash
\* and the test on the registry.
ScanFile(f) ==
  /\ pc = "scan"
  /\ f \in pdf_files
  /\ IF files[f] = 0
     THEN \* is_file() is false: the file has gone since the glob
          /\ pdf_files' = pdf_files \ {f}
          /\ UNCHANGED <<pc, cur, files_to_process, selected, scanned>>
     ELSE LET current_hash == files[f]
          IN /\ scanned' = [scanned EXCEPT ![f] = current_hash]
             /\ IF (IF variant = "legacy"
                    THEN ~is_already_processed(processed_files, f,
                                               current_hash)
                    ELSE NeedsProcessing(force_reprocess, processed_files,
                                         f, current_hash))
                THEN /\ selected' = selected \cup {f}
                     /\ IF variant = "incremental"
                        THEN /\ files_to_process' = Append(files_to_process, f)
                             /\ pdf_files' = pdf_files \ {f}
                             /\ UNCHANGED <<pc, cur>>
                        ELSE /\ cur' = [name |-> f, hash |-> current_hash]
                             /\ pc' = "process"
                             /\ UNCHANGED <<pdf_files, files_to_process>>
                ELSE /\ pdf_files' = pdf_files \ {f}
                     /\ UNCHANGED <<pc, cur, files_to_process, selected>>
  /\ UNCHANGED <<durable, force_reprocess, processed_files,
                 existing_documents, new_documents, updated, all_documents,
                 successful_processes, runs, envSteps, outcome, forced, ensured, failed,
                 startRegistry, computed, envQuiet,
                 quiet>>
  /\ UNCHANGED <<function_call, prompting>>

\* The rest of the iteration in scan_and_process: process_document and the
\* update of the three local collections.
ProcessFile ==
  /\ pc = "process"
  /\ variant \in Batch
  /\ \E service \in Services :
       LET content == files[cur.name]
           doc_info == IF variant \in Analyses
                       THEN process_document(cur.name, content, service)
                       ELSE process_document_plain(cur.name, content)
       IN /\ IF ~doc_info.ok
             THEN \* the exception leaves scan_and_process
                  /\ EndRun(IF variant \in Analyses /\
                               ~AnalysisOf[cur.name][content][service].ok
                            THEN "analysis_raised" ELSE "raised")
                  /\ failed' = TRUE
                  /\ UNCHANGED computed
             ELSE /\ existing_documents' =
                       WithoutFilename(existing_documents, cur.name)
                  /\ new_documents' = Append(new_documents, doc_info.val)
                  /\ processed_files' =
                       [processed_files EXCEPT ![cur.name] = cur.hash]
                  /\ updated' = TRUE
                  /\ pdf_files' = pdf_files \ {cur.name}
                  /\ cur' = NoCur
                  /\ pc' = "scan"
                  /\ computed' = computed \cup {doc_info.val}
                  /\ UNCHANGED <<force_reprocess, all_documents,
                                 files_to_process, successful_processes,
                                 outcome, failed>>
  /\ UNCHANGED <<durable, runs, envSteps, forced, ensured, startRegistry, selected,
                 scanned, envQuiet, quiet>>
  /\ UNCHANGED <<function_call, prompting>>

\* The rest of the iteration in process_documents up to the append:
\* load_document and the new entry.  loaded: the loader returned pages.
LegacyProcessFile(loaded) ==
  /\ pc = "process"
  /\ variant = "legacy"
  /\ IF files[cur.name] = 0 \/ ~loaded
     THEN \* load_document returns None: continue
          /\ pdf_files' = pdf_files \ {cur.name}
          /\ cur' = NoCur
          /\ pc' = "scan"
          /\ failed' = TRUE
          /\ UNCHANGED <<new_documents, computed>>
     ELSE LET doc_entry == [filename |-> cur.name,
                            content |-> files[cur.name]]
          IN /\ new_documents' = Append(new_documents, doc_entry)
             /\ computed' = computed \cup {doc_entry}
             /\ pc' = "rehash"
             /\ UNCHANGED <<pdf_files, cur, failed>>
  /\ UNCHANGED <<durable, force_reprocess, processed_files,
                 existing_documents, updated, all_documents,
                 files_to_process, successful_processes, runs, envSteps,
                 outcome, forced, ensured, startRegistry,
                 selected,
                 scanned, envQuiet, quiet>>
  /\ UNCHANGED <<function_call, prompting>>

\* "Update hash of processed file" in process_documents: get_file_hash is
\* called again after the entry was built.
LegacyRehash ==
  /\ pc = "rehash"
  /\ variant = "legacy"
  /\ IF files[cur.name] = 0
     THEN \* open() raises and the exception leaves process_documents
          /\ EndRun("raised")
          /\ failed' = TRUE
     ELSE /\ processed_files' =
               [processed_files EXCEPT ![cur.name] = files[cur.name]]
          /\ pdf_files' = pdf_files \ {cur.name}
          /\ cur' = NoCur
          /\ pc' = "scan"
          /\ UNCHANGED <<force_reprocess, existing_documents, new_documents,
                         updated, all_documents, files_to_process,
                         successful_processes, outcome, failed>>
  /\ UNCHANGED <<durable, runs, envSteps, forced, ensured, startRegistry, selected,
                 scanned, computed, envQuiet, quiet>>
  /\ UNCHANGED <<function_call, prompting>>

\* "Check for deleted files" of OllamaDocumentProcessor.scan_and_process and
\* FallbackDocumentProcessor.scan_and_process: the registry entries whose
\* file does not exist
DeletedFiles(known) == {f \in FileNames : known[f] # 0 /\ files[f] = 0}

\* After the scan loop: the check for deleted files (where the variant has
\* one), the decision to write, and the list that is written.
FinishScan ==
  /\ pc = "scan"
  /\ pdf_files = {}
  /\ CASE variant = "fixed" ->
            IF updated \/ force_reprocess
            THEN /\ all_documents' =
                      SortByFilename(existing_documents \o new_documents)
                 /\ pc' = "save_data"
                 /\ UNCHANGED <<locals_but_all, outcome>>
            ELSE EndRun("unchanged")
       [] variant \in {"ollama", "fallback"} ->
            LET files_to_remove == DeletedFiles(processed_files)
                remaining == WithoutFilenames(existing_documents,
                                              files_to_remove)
                changed == updated \/ files_to_remove # {}
            IN IF changed \/ (variant = "fallback" /\ remaining = <<>>)
               THEN /\ all_documents' =
                         SortByFilename(remaining \o new_documents)
                    /\ processed_files' =
                         [f \in FileNames |->
                            IF f \in files_to_remove THEN 0
                            ELSE processed_files[f]]
                    /\ existing_documents' = remaining
                    /\ updated' = changed
                    /\ pc' = "save_data"
                    /\ UNCHANGED <<force_reprocess, new_documents, pdf_files,
                                   cur, files_to_process,
                                   successful_processes, outcome>>
               ELSE EndRun("unchanged")
       [] variant = "legacy" ->
            IF new_documents # <<>>
            THEN /\ all_documents' = existing_documents \o new_documents
                 /\ pc' = "save_dist"
                 /\ UNCHANGED <<locals_but_all, outcome>>
            ELSE EndRun("unchanged")
       [] variant = "incremental" ->
            IF files_to_process # <<>>
            THEN /\ pc' = "single"
                 /\ UNCHANGED <<locals, outcome>>
            ELSE EndRun("unchanged")
  /\ UNCHANGED <<durable, runs, envSteps, failed, forced, ensured, startRegistry,
                 selected, scanned, computed, envQuiet, quiet>>
  /\ UNCHANGED <<function_call, prompting>>

\* process_single_document_with_commit up to the sort: process_document and
\* the in-place update of existing_documents.
SingleProcess ==
  /\ pc = "single"
  /\ variant = "incremental"
  /\ files_to_process # <<>>
  /\ \E service \in Services :
       LET f == Head(files_to_process)
           content == files[f]
           doc_info == process_document(f, content, service)
       IN /\ IF ~doc_info.ok
             THEN \* except Exception: return False
                  /\ files_to_process' = Tail(files_to_process)
                  /\ failed' = TRUE
                  /\ outcome' =
                       IF ~AnalysisOf[f][content][service].ok
                       THEN "analysis_failed" ELSE outcome
                  /\ UNCHANGED <<pc, existing_documents, cur, computed>>
             ELSE /\ existing_documents' =
                       SortByFilename(
                         Append(WithoutFilename(existing_documents, f),
                                doc_info.val))
                  /\ cur' = [name |-> f, hash |-> 0]
                  /\ pc' = "rehash"
                  /\ computed' = computed \cup {doc_info.val}
                  /\ UNCHANGED <<files_to_process, failed, outcome>>
  /\ UNCHANGED <<durable, force_reprocess, processed_files, new_documents,
                 updated, pdf_files, all_documents, successful_processes,
                 runs, envSteps, forced, ensured, startRegistry,
                 selected, scanned, envQuiet, quiet>>
  /\ UNCHANGED <<function_call, prompting>>

\* "Update processed files tracking" of
\* process_single_document_with_commit: get_file_hash after the processing.
SingleRehash ==
  /\ pc = "rehash"
  /\ variant = "incremental"
  /\ IF files[cur.name] = 0
     THEN \* open() raises; except Exception: return False
          /\ files_to_process' = Tail(files_to_process)
          /\ cur' = NoCur
          /\ pc' = "single"
          /\ failed' = TRUE
          /\ UNCHANGED <<processed_files, all_documents>>
     ELSE /\ processed_files' =
               [processed_files EXCEPT ![cur.name] = files[cur.name]]
          /\ all_documents' = existing_documents
          /\ pc' = "save_data"
          /\ UNCHANGED <<files_to_process, cur, failed>>
  /\ UNCHANGED <<durable, force_reprocess, existing_documents, new_documents,
                 updated, pdf_files, successful_processes, runs, envSteps,
                 outcome, forced, ensured, startRegistry,
                 selected,
                 scanned, computed, envQuiet, quiet>>
  /\ UNCHANGED <<function_call, prompting>>

\* save_documents with the registry written along with the first copy of
\* the corpus, before the second copy
SaveData_registry_first ==
  /\ pc = "save_data"
  /\ corpusData' = all_documents
  /\ registry' = processed_files
  /\ pc' = "save_dist"
  /\ UNCHANGED <<files, corpusDist, variant, documents_dir_exists, locals, runs, envSteps,
                 runHistory, envQuiet, quiet>>
  /\ UNCHANGED <<function_call, prompting>>

\* save_documents, first write: data/documents.json
SaveData ==
  /\ pc = "save_data"
  /\ corpusData' = all_documents
  /\ pc' = "save_dist"
  /\ UNCHANGED <<files, registry, corpusDist, variant, documents_dir_exists, locals, runs,
                 envSteps, runHistory, envQuiet, quiet>>
  /\ UNCHANGED <<function_call, prompting>>

\* save_documents, second write: dist/data/documents.json; for
\* process_documents, update_database
SaveDist ==
  /\ pc = "save_dist"
  /\ corpusDist' = all_documents
  /\ pc' = "save_registry"
  /\ UNCHANGED <<files, registry, corpusData, variant, documents_dir_exists, locals, runs,
                 envSteps, runHistory, envQuiet, quiet>>
  /\ UNCHANGED <<function_call, prompting>>

\* save_processed_files; it ends the run except in the incremental
\* processor, where the commit follows
SaveRegistry ==
  /\ pc = "save_registry"
  /\ registry' = processed_files
  /\ IF variant = "incremental"
     THEN /\ pc' = "commit"
          /\ UNCHANGED <<locals, outcome>>
     ELSE EndRun("updated")
  /\ UNCHANGED <<files, corpusData, corpusDist, variant, documents_dir_exists, runs, envSteps,
                 failed, forced, ensured, startRegistry, selected,
                 scanned, computed, envQuiet, quiet>>
  /\ UNCHANGED <<function_call, prompting>>

\* git_commit_and_push at the end of process_single_document_with_commit;
\* pushed is its result
Commit(pushed) ==
  /\ pc = "commit"
  /\ successful_processes' = successful_processes + (IF pushed THEN 1 ELSE 0)
  /\ failed' = (failed \/ ~pushed)
  /\ files_to_process' = Tail(files_to_process)
  /\ cur' = NoCur
  /\ pc' = "single"
  /\ UNCHANGED <<durable, force_reprocess, processed_files,
                 existing_documents, new_documents, updated, pdf_files,
                 all_documents, runs, envSteps, outcome, forced, ensured, startRegistry,
                 selected, scanned, computed,
                 envQuiet, quiet>>
  /\ UNCHANGED <<function_call, prompting>>

\* the end of scan_and_process_incrementally
SingleDone ==
  /\ pc = "single"
  /\ files_to_process = <<>>
  /\ EndRun(IF successful_processes > 0 THEN "updated" ELSE "failed")
  /\ UNCHANGED <<durable, runs, envSteps, failed, forced, ensured, startRegistry,
                 selected, scanned, computed, envQuiet, quiet>>
  /\ UNCHANGED <<function_call, prompting>>

\* the process is killed
Interrupt ==
  /\ pc # "idle"
  /\ EndRun("interrupted")
  /\ UNCHANGED <<durable, runs, envSteps, failed, forced, ensured, startRegistry,
                 selected, scanned, computed, envQuiet, quiet>>
  /\ UNCHANGED <<function_call, prompting>>

\* main of each processor script: the exit status of the process, given
\* how its run ended.  No main calls sys.exit with a status other than 0
\* (the incremental one calls sys.exit(0) on both branches), so the status
\* is 1 only when an exception leaves main.
main(result) ==
  IF result \in {"raised", "analysis_raised"} THEN 1 ELSE 0

Next ==
  \/ \E f \in FileNames, h \in Contents : WriteFile(f, h)
  \/ \E f \in FileNames : DeleteFile(f)
  \/ \E force \in BOOLEAN, available \in BOOLEAN : StartRun(force, available)
  \/ \E f \in FileNames : ScanFile(f)
  \/ ProcessFile
  \/ \E loaded \in BOOLEAN : LegacyProcessFile(loaded)
  \/ LegacyRehash
  \/ FinishScan
  \/ SingleProcess
  \/ SingleRehash
  \/ SaveData
  \/ SaveDist
  \/ SaveRegistry
  \/ \E pushed \in BOOLEAN : Commit(pushed)
  \/ SingleDone
  \/ Interrupt

Spec == Init /\ [][Next]_vars

\* ------------------------------------------------------------------------
\* Runs of scan_and_process over a corpus file that may be unparseable
\* ------------------------------------------------------------------------
\* A run of the fallback processor starts on a data/documents.json that
\* json.loads rejects (a write cut short, a conflict the cleaning does not
\* mend): load_existing_documents catches the exception and returns [].
\* The registry is loaded as it is.
StartRunUnparseable ==
  /\ pc = "idle"
  /\ runs < MaxRuns
  /\ variant = "fallback"
  /\ documents_dir_exists
  /\ ensured' = TRUE
  /\ runs' = runs + 1
  /\ startRegistry' = registry
  /\ selected' = {}
  /\ scanned' = NoRegistry
  /\ computed' = {}
  /\ failed' = FALSE
  /\ forced' = FALSE
  /\ quiet' = FALSE
  /\ envQuiet' = TRUE
  /\ pc' = "scan"
  /\ outcome' = "running"
  /\ force_reprocess' = FALSE
  /\ processed_files' = registry
  /\ existing_documents' = <<>>
  /\ new_documents' = <<>>
  /\ updated' = FALSE
  /\ pdf_files' = {f \in FileNames : files[f] # 0}
  /\ cur' = NoCur
  /\ all_documents' = <<>>
  /\ files_to_process' = <<>>
  /\ successful_processes' = 0
  /\ UNCHANGED <<durable, envSteps>>
  /\ UNCHANGED <<function_call, prompting>>

\* the processors whose run is scan_and_process with a tolerant or a
\* forced load
RecoveryInit == Init /\ variant \in {"fixed", "fallback"}

RecoveryNext ==
  \/ \E f \in FileNames, h \in Contents : WriteFile(f, h)
  \/ \E f \in FileNames : DeleteFile(f)
  \/ \E force \in BOOLEAN, available \in BOOLEAN : StartRun(force, available)
  \/ StartRunUnparseable
  \/ \E f \in FileNames : ScanFile(f)
  \/ ProcessFile
  \/ FinishScan
  \/ SaveData
  \/ SaveDist
  \/ SaveRegistry
  \/ Interrupt

RecoverySpec == RecoveryInit /\ [][RecoveryNext]_vars

\* ------------------------------------------------------------------------
\* Properties
\* ------------------------------------------------------------------------
\* the positions of the records of a corpus that carry a file name
Named(corpus, f) == {i \in DOMAIN corpus : corpus[i].filename = f}

\* the corpus holds the record
Holds(corpus, d) == \E i \in DOMAIN corpus : corpus[i] = d

\* the record is in the persisted corpus: in both copies, or for
\* process_documents in the one copy it writes
Persisted(d) ==
  IF variant = "legacy" THEN Holds(corpusDist, d)
  ELSE Holds(corpusData, d) /\ Holds(corpusDist, d)

NoDuplicate(corpus) ==
  \A i, j \in DOMAIN corpus :
    i # j => corpus[i].filename # corpus[j].filename

\* the last run ran to its end
Completed == pc = "idle" /\ outcome \in {"updated", "unchanged"}

C2_ProcessedIffNeeded ==
  \A f \in FileNames :
    scanned[f] # 0 =>
      (f \in selected <=>
         (forced \/ startRegistry[f] = 0 \/ startRegistry[f] # scanned[f]))

\* a non-forced run has skipped a registered file whose hash is unchanged
\* and selected a registered file whose hash has changed
C2_Witness ==
  /\ ~forced
  /\ \E f, g \in FileNames :
       /\ scanned[f] # 0 /\ startRegistry[f] = scanned[f] /\ f \notin selected
       /\ scanned[g] # 0 /\ startRegistry[g] # 0
       /\ startRegistry[g] # scanned[g] /\ g \in selected

\* C3: after a run that ran to its end, a file that was in the registry
\* when the run started and no longer exists has no entry in the registry
\* and no record in either copy of the corpus.
C3_DeletedFilesRemoved ==
  (Completed /\ envQuiet) =>
    \A f \in FileNames :
      (startRegistry[f] # 0 /\ files[f] = 0) =>
        /\ registry[f] = 0
        /\ Named(corpusData, f) = {}
        /\ Named(corpusDist, f) = {}

\* C4: in every state, no copy of the persisted corpus holds two records
\* with the same filename.
C4_OneRecordPerFilename ==
  NoDuplicate(corpusData) /\ NoDuplicate(corpusDist)

\* C5: in every state, also in the middle of save_documents and after an
\* interruption, data/documents.json and dist/data/documents.json hold the
\* same content.
C5_CopiesIdentical == corpusData = corpusDist

\* a path of the registry maps to a new hash only if a record the run
\* computed for that file is in the persisted corpus
RegisteredOnlyIfPersisted ==
  \A f \in FileNames :
    (registry[f] # 0 /\ registry[f] # startRegistry[f]) =>
      \E d \in computed : d.filename = f /\ Persisted(d)

\* the selected files that a next, non-forced run finds as this run's scan
\* found them and that the registry holds as it did when the run started
Unfinished ==
  {f \in selected : registry[f] = startRegistry[f] /\ files[f] = scanned[f]}

\* the test of the scan loop selects the file in a non-forced run
SelectedByNextRun(f) ==
  IF variant = "legacy" THEN ~is_already_processed(registry, f, files[f])
  ELSE NeedsProcessing(FALSE, registry, f, files[f])

C7_NoResponseAborts ==
  variant \in Analyses =>
    /\ outcome # "analysis_raised"
    /\ (Completed /\ envQuiet) =>
         \A f \in selected : Named(corpusData, f) # {}

\* C8: the record a run of the analysing pipeline computes for
\* intro_to_machine_learning.pdf when no text can be extracted from it, the
\* service failing every call or behaving in any other way, has the title
\* "intro to machine learning", the category "Machine Learning", the
\* difficulty "Intermediate", "Machine Learning" among its keywords, and the
\* confidence 0.
C8_DegradedRecord ==
  variant \in Analyses =>
    \A d \in computed :
      (d.filename = FileIntro /\ extract_pdf_text(d.content) = <<>>) =>
        /\ d.title = "intro to machine learning"
        /\ d.category = "Machine Learning"
        /\ d.difficulty = "Intermediate"
        /\ \E i \in DOMAIN d.keywords : d.keywords[i] = "Machine Learning"
        /\ d.confidence_score = <<0, 1>>

\* C9: the difficulty of every record the analysing pipeline has persisted
\* is one of Beginner, Intermediate, Advanced.
C9_DifficultyInEnum ==
  variant \in Analyses =>
    \A i \in DOMAIN corpusData :
      corpusData[i].difficulty \in {"Beginner", "Intermediate", "Advanced"}

\* C10: the keywords of every record the analysing pipeline has persisted
\* are a list of at least one and at most 5 entries.
C10_KeywordsBounded ==
  variant \in Analyses =>
    \A i \in DOMAIN corpusData :
      Len(corpusData[i].keywords) \in 1..5

\* C13: a run exits with status 0 when it processed documents and when there
\* was nothing to do, and with a status other than 0 when its set-up failed
\* (documents directory missing, or the model not available).
C13_ExitStatus ==
  pc = "idle" =>
    /\ outcome \in {"updated", "unchanged"} => main(outcome) = 0
    /\ outcome = "setup_failed" => main(outcome) # 0

\* a step of a run that started with the documents directory missing or with
\* ensure_model_available returning False, or a step that follows such a run
AfterFailedSetup == ~documents_dir_exists \/ ~ensured

\* C14: when the documents directory is missing or ensure_model_available
\* reports failure, the run ends without processing any file and leaves both
\* copies of the corpus and the registry as they were.
C14_FailedSetupWritesNothing ==
  [][AfterFailedSetup' =>
       /\ pc' \notin {"process", "rehash", "single", "save_data",
                       "save_dist", "save_registry", "commit"}
       /\ selected' = {}
       /\ computed' = {}
       /\ registry' = registry
       /\ corpusData' = corpusData
       /\ corpusDist' = corpusDist]_vars

\* a run of a processor that had written a corpus before found the model
\* unavailable while a file was waiting to be processed
C14_Witness ==
  /\ pc = "idle"
  /\ runs = 2
  /\ outcome = "setup_failed"
  /\ ~ensured
  /\ corpusData # <<>>
  /\ \E f \in FileNames : files[f] # 0 /\ registry[f] # files[f]

\* C15: a source file that cannot be read is skipped: no run is ended by
\* the exception of an unreadable file, and a run that went through its
\* files has persisted the record of every file it marked as processed.
C15_UnreadableFileSkipped ==
  /\ outcome # "raised"
  /\ (pc = "idle" /\ outcome \in {"updated", "unchanged", "failed"}) =>
       \A f \in selected :
         registry[f] # startRegistry[f] =>
           \E d \in computed : d.filename = f /\ Persisted(d)

\* ------------------------------------------------------------------------
\* BulletproofOllamaDocumentProcessor._validate_and_clean: title, category
\* and summary of the validated record
\* ------------------------------------------------------------------------
\* the bounds on the length of a summary and the characters kept of one
\* that is too long
summary_min_length == 20
summary_max_length == 300
summary_kept == 297

\* the pieces of the f-string that makes a summary of title and category
T_covers ==
  <<"T", "h", "i", "s", " ", "d", "o", "c", "u", "m", "e", "n", "t", " ",
    "c", "o", "v", "e", "r", "s", " ">>

T_providing ==
  <<" ", "p", "r", "o", "v", "i", "d", "i", "n", "g", " ", "c", "o", "m",
    "p", "r", "e", "h", "e", "n", "s", "i", "v", "e", " ", "i", "n", "f",
    "o", "r", "m", "a", "t", "i", "o", "n", " ", "a", "n", "d", " ", "i",
    "n", "s", "i", "g", "h", "t", "s", " ", "o", "n", " ">>

T_ellipsis == <<".", ".", ".">>

W_science == <<"s", "c", "i", "e", "n", "c", "e">>

\* the characters of a category
CategoryChars(category) ==
  CASE category = "AI" -> <<"A", "I">>
    [] category = "Machine Learning" ->
         <<"M", "a", "c", "h", "i", "n", "e", " ",
           "L", "e", "a", "r", "n", "i", "n", "g">>
    [] category = "Data Science" ->
         <<"D", "a", "t", "a", " ", "S", "c", "i", "e", "n", "c", "e">>
    [] category = "Analytics" ->
         <<"A", "n", "a", "l", "y", "t", "i", "c", "s">>
    [] category = "Business" ->
         <<"B", "u", "s", "i", "n", "e", "s", "s">>
    [] category = "Technology" ->
         <<"T", "e", "c", "h", "n", "o", "l", "o", "g", "y">>
    [] category = "Research" ->
         <<"R", "e", "s", "e", "a", "r", "c", "h">>

\* str.strip() for texts whose only whitespace is the space
RECURSIVE Strip(_)
Strip(s) ==
  IF s = <<>> THEN s
  ELSE IF s[1] = " " THEN Strip(Tail(s))
  ELSE IF s[Len(s)] = " " THEN Strip(SubSeq(s, 1, Len(s) - 1))
  ELSE s

\* the category inferred from the file name in _validate_and_clean
bulletproof_infer_category(filename) ==
  LET filename_lower == Lower(filename)
  IN IF AnyIn(filename_lower, {W_ai, W_artificial}) THEN "AI"
     ELSE IF AnyIn(filename_lower, {W_machine, W_learning, W_ml})
          THEN "Machine Learning"
     ELSE IF AnyIn(filename_lower, {W_data, W_analytics, W_science})
          THEN "Data Science"
     ELSE IF AnyIn(filename_lower, {W_business}) THEN "Business"
     ELSE "Technology"

\* _validate_and_clean; data holds the title, the category and the summary
\* of the record (strings, the empty string for a missing value); the other
\* fields of the record do not enter the summary and are left out
_validate_and_clean(data, filename) ==
  LET title == IF data.title = <<>> \/ Len(Strip(data.title)) < 3
               THEN CleanTitle(filename) ELSE data.title
      category == IF data.category \notin valid_categories
                  THEN bulletproof_infer_category(filename)
                  ELSE data.category
      summary ==
        IF data.summary = <<>> \/ Len(data.summary) < summary_min_length
        THEN T_covers \o Lower(title) \o T_providing
             \o Lower(CategoryChars(category)) \o <<".">>
        ELSE IF Len(data.summary) > summary_max_length
             THEN Take(data.summary, summary_kept) \o T_ellipsis
             ELSE data.summary
  IN [title |-> title, category |-> category, summary |-> summary]

\* ------------------------------------------------------------------------
\* load_existing_documents: reading data/documents.json
\* ------------------------------------------------------------------------
\* The content of the file is the sequence of its lines.  A line is the
\* opening or the closing bracket of the array, one record (with or
\* without the comma that follows it), or a marker of a Git merge conflict.
L_open == [t |-> "["]
L_close == [t |-> "]"]
L_doc(i, comma) == [t |-> "doc", doc |-> i, comma |-> comma]
L_head == [t |-> "<<<<<<< HEAD"]
L_sep == [t |-> "======="]
L_end == [t |-> ">>>>>>> "]

\* the file does not exist (db_path.exists() is false)
NoFile == <<[t |-> "absent"]>>

\* json.loads of the lines: the list of the records, or JSONDecodeError.
\* The text is an array when it opens and closes with the brackets and
\* holds records, each but the last followed by a comma.
json_loads(lines) ==
  IF /\ Len(lines) >= 2
     /\ lines[1] = L_open
     /\ lines[Len(lines)] = L_close
     /\ \A k \in 2..(Len(lines) - 1) :
          /\ lines[k].t = "doc"
          /\ lines[k].comma <=> k < Len(lines) - 1
  THEN Return([k \in 1..(Len(lines) - 2) |-> lines[k + 1].doc])
  ELSE Raise

\* the loop over the lines in FallbackDocumentProcessor
\* .load_existing_documents that drops the conflicting sections
RECURSIVE clean_lines(_, _)
clean_lines(lines, skip_until_end) ==
  IF lines = <<>> THEN <<>>
  ELSE LET line == lines[1]
       IN IF line = L_head THEN clean_lines(Tail(lines), TRUE)
          ELSE IF line = L_sep THEN clean_lines(Tail(lines), skip_until_end)
          ELSE IF line = L_end THEN clean_lines(Tail(lines), FALSE)
          ELSE IF ~skip_until_end
               THEN <<line>> \o clean_lines(Tail(lines), skip_until_end)
               ELSE clean_lines(Tail(lines), skip_until_end)

\* FallbackDocumentProcessor.load_existing_documents
fallback_load_existing_documents(content) ==
  IF content = NoFile THEN Return(<<>>)
  ELSE LET cleaned == IF \E k \in DOMAIN content : content[k] = L_head
                      THEN clean_lines(content, FALSE)
                      ELSE content
           parsed == json_loads(cleaned)
       IN IF parsed.ok THEN parsed  \* except (JSONDecodeError, Exception)
          ELSE Return(<<>>)

\* FixedOllamaDocumentProcessor.load_existing_documents (the same code in
\* the other Ollama processors)
load_existing_documents(content) ==
  IF content = NoFile THEN Return(<<>>)
  ELSE json_loads(content)

\* ------------------------------------------------------------------------
\* Response parsers: UltimateOllamaDocumentProcessor.parse_ollama_response
\* and FixedOllamaDocumentProcessor.parse_ollama_response of
\* ollama_processor_fixed.py
\* ------------------------------------------------------------------------
\* A response text is the sequence of its tokens: a word of prose, the
\* markers of a reasoning section, a brace, a comma, a member of an object
\* (`"key": "value"` with a quoted value, `"key": 3` with a bare one), or a
\* line of the form `Key: value`.  Texts have no whitespace at their ends,
\* labels stand outside the braces, and objects hold no arrays.
T_word == [t |-> "word"]
T_think == [t |-> "<think>"]
T_unthink == [t |-> "</think>"]
T_lb == [t |-> "{"]
T_rb == [t |-> "}"]
T_comma == [t |-> ","]
Member(key, v) == [t |-> "member", key |-> key, v |-> v]
Label(key) == [t |-> "label", key |-> key]

\* the fields the regular expressions of extract_fields_with_regex look for
regex_fields ==
  {"title", "summary", "category", "difficulty", "keywords", "authors",
   "content_preview"}

\* "Must have at least 3 fields"
min_fields == 3

\* str.find and str.rfind of a token: its first and last position, 0 for -1
Find(text, tok) ==
  IF \E k \in DOMAIN text : text[k] = tok
  THEN CHOOSE k \in DOMAIN text :
         text[k] = tok /\ \A j \in 1..(k - 1) : text[j] # tok
  ELSE 0

RFind(text, tok) ==
  IF \E k \in DOMAIN text : text[k] = tok
  THEN CHOOSE k \in DOMAIN text :
         text[k] = tok /\ \A j \in (k + 1)..Len(text) : text[j] # tok
  ELSE 0

\* the dict of the members at the even positions of an object; a key that
\* occurs twice keeps its last value
DictOf(text) ==
  LET at == {k \in 2..(Len(text) - 1) : k % 2 = 0}
      last(key) == CHOOSE k \in at :
                     text[k].key = key /\ \A j \in at :
                                            text[j].key = key => j <= k
  IN [key \in {text[k].key : k \in at} |-> text[last(key)].v]

\* json.loads of a text: the dict of the object `{member, member, ...}`, or
\* json.JSONDecodeError for any other text
json_object(text) ==
  IF /\ Len(text) >= 2
     /\ text[1] = T_lb
     /\ text[Len(text)] = T_rb
     /\ Len(text) > 2 => Len(text) % 2 = 1
     /\ \A k \in 2..(Len(text) - 1) :
          IF k % 2 = 0 THEN text[k].t = "member" ELSE text[k] = T_comma
  THEN Return(DictOf(text))
  ELSE Raise

\* response_text[first_brace:last_brace + 1] when both braces are found
\* and the last one follows the first; the empty text otherwise
BraceSlice(text) ==
  LET first_brace == Find(text, T_lb)
      last_brace == RFind(text, T_rb)
  IN IF first_brace # 0 /\ last_brace # 0 /\ last_brace > first_brace
     THEN SubSeq(text, first_brace, last_brace)
     ELSE <<>>

\* "Handle DeepSeek thinking format" of extract_json_from_response: the
\* text after the first closing marker, or from the first brace on when
\* there is none
after_think(text) ==
  IF Find(text, T_think) = 0 THEN text
  ELSE IF Find(text, T_unthink) # 0
       THEN SubSeq(text, Find(text, T_unthink) + 1, Len(text))
       ELSE IF Find(text, T_lb) # 0
            THEN SubSeq(text, Find(text, T_lb), Len(text))
            ELSE text

NotTag(tok) == tok \notin {T_think, T_unthink}

\* re.sub(r'<[^>]+>', '', response_text)
remove_tags(text) == SelectSeq(text, NotTag)

\* the position of the brace that closes `{[^{}]*}` opened before p, or 0
RECURSIVE FlatEnd(_, _)
FlatEnd(text, p) ==
  IF p > Len(text) \/ text[p] = T_lb THEN 0
  ELSE IF text[p] = T_rb THEN p
  ELSE FlatEnd(text, p + 1)

\* the position after the longest run of `[^{}]` and `{[^{}]*}` from p on
RECURSIVE UnitsEnd(_, _)
UnitsEnd(text, p) ==
  IF p > Len(text) \/ text[p] = T_rb THEN p
  ELSE IF text[p] = T_lb
       THEN IF FlatEnd(text, p + 1) = 0 THEN p
            ELSE UnitsEnd(text, FlatEnd(text, p + 1) + 1)
       ELSE UnitsEnd(text, p + 1)

\* re.findall(r'\{(?:[^{}]|{[^{}]*})*\}', text) from position i on; the
\* same matches as r'\{[^{}]*(?:\{[^{}]*\}[^{}]*)*\}'
RECURSIVE NestedBlocks(_, _)
NestedBlocks(text, i) ==
  IF i > Len(text) THEN <<>>
  ELSE LET e == UnitsEnd(text, i + 1)
       IN IF text[i] = T_lb /\ e <= Len(text)
          THEN <<SubSeq(text, i, e)>> \o NestedBlocks(text, e + 1)
          ELSE NestedBlocks(text, i + 1)

\* re.findall(r'\{[^{}]*\}', text) from position i on
RECURSIVE FlatBlocks(_, _)
FlatBlocks(text, i) ==
  IF i > Len(text) THEN <<>>
  ELSE LET e == FlatEnd(text, i + 1)
       IN IF text[i] = T_lb /\ e # 0
          THEN <<SubSeq(text, i, e)>> \o FlatBlocks(text, e + 1)
          ELSE FlatBlocks(text, i + 1)

\* re.findall(r'\{.*?\}', text) from position i on
RECURSIVE LazyBlocks(_, _)
LazyBlocks(text, i) ==
  IF i > Len(text) THEN <<>>
  ELSE LET rest == SubSeq(text, i + 1, Len(text))
           e == IF Find(rest, T_rb) = 0 THEN 0 ELSE i + Find(rest, T_rb)
       IN IF text[i] = T_lb /\ e # 0
          THEN <<SubSeq(text, i, e)>> \o LazyBlocks(text, e + 1)
          ELSE LazyBlocks(text, i + 1)

NoString == [found |-> FALSE]
String(text) == [found |-> TRUE, text |-> text]

\* the first match that is an object of more than two fields
RECURSIVE FirstLargeObject(_)
FirstLargeObject(matches) ==
  IF matches = <<>> THEN NoString
  ELSE LET parsed == json_object(matches[1])
       IN IF parsed.ok /\ Cardinality(DOMAIN parsed.val) > 2
          THEN String(matches[1])
          ELSE FirstLargeObject(Tail(matches))

\* the first match that json.loads accepts
RECURSIVE FirstObject(_)
FirstObject(matches) ==
  IF matches = <<>> THEN NoString
  ELSE IF json_object(matches[1]).ok THEN String(matches[1])
       ELSE FirstObject(Tail(matches))

\* UltimateOllamaDocumentProcessor.extract_json_from_response; its third
\* pattern needs an array and matches nothing here
extract_json_from_response(response_text) ==
  LET text == remove_tags(after_think(response_text))
      block == FirstLargeObject(NestedBlocks(text, 1) \o FlatBlocks(text, 1))
  IN IF response_text = <<>> THEN NoString
     ELSE IF block.found THEN block
     ELSE IF json_object(BraceSlice(text)).ok THEN String(BraceSlice(text))
     ELSE NoString

\* UltimateOllamaDocumentProcessor.extract_fields_with_regex: for each
\* field the quoted-key pattern comes first, the `Key: value` pattern
\* after it
extract_fields_with_regex(response_text) ==
  LET quoted(key) == \E k \in DOMAIN response_text :
                       response_text[k] = Member(key, "quoted")
      labelled(key) == \E k \in DOMAIN response_text :
                         response_text[k] = Label(key)
  IN [key \in {f \in regex_fields : quoted(f) \/ labelled(f)} |->
        IF quoted(key) THEN "quoted" ELSE "label"]

\* r':\s*([^",\[\]{}]+)(?=\s*[,}])' -> r': "\1"': a bare value that a
\* comma or a closing brace follows gets quotes
QuoteBareValues(text) ==
  [k \in DOMAIN text |->
     IF /\ text[k].t = "member"
        /\ text[k].v = "bare"
        /\ k < Len(text)
        /\ text[k + 1] \in {T_comma, T_rb}
     THEN Member(text[k].key, "requoted")
     ELSE text[k]]

\* r',\s*}' -> '}': a comma before a closing brace goes
RECURSIVE RemoveTrailingCommas(_)
RemoveTrailingCommas(text) ==
  IF text = <<>> THEN <<>>
  ELSE IF Len(text) >= 2 /\ text[1] = T_comma /\ text[2] = T_rb
       THEN <<T_rb>> \o RemoveTrailingCommas(SubSeq(text, 3, Len(text)))
       ELSE <<text[1]>> \o RemoveTrailingCommas(Tail(text))

\* "Try to fix common JSON issues" of parse_ollama_response: the fixes in
\* their order (the keys of members carry their quotes already)
FixCommonIssues(json_attempt) ==
  RemoveTrailingCommas(QuoteBareValues(json_attempt))

NoRecord == [by |-> "none"]
Record(by, val) == [by |-> by, val |-> val]

\* UltimateOllamaDocumentProcessor.parse_ollama_response; by names the
\* method that returned the record
parse_ollama_response(response_text) ==
  LET direct == json_object(response_text)
      json_str == extract_json_from_response(response_text)
      extracted_data == extract_fields_with_regex(response_text)
      json_attempt ==
        IF Find(response_text, T_lb) > RFind(response_text, T_rb) THEN <<>>
        ELSE SubSeq(response_text, Find(response_text, T_lb),
                    RFind(response_text, T_rb))
      fixed == IF Find(response_text, T_lb) # 0
                  /\ RFind(response_text, T_rb) # 0
               THEN json_object(FixCommonIssues(json_attempt))
               ELSE Raise
  IN IF response_text = <<>> THEN NoRecord
     ELSE IF direct.ok /\ Cardinality(DOMAIN direct.val) > 2
          THEN Record("direct", direct.val)
     ELSE IF json_str.found
          THEN Record("extracted", json_object(json_str.text).val)
     ELSE IF Cardinality(DOMAIN extracted_data) >= min_fields
          THEN Record("regex", extracted_data)
     ELSE IF fixed.ok THEN Record("fixed", fixed.val)
     ELSE NoRecord

\* r'(?<!\\)"(?=.*")' -> r'\\"' of clean_json_response: every quote that
\* another quote follows gets a backslash, and no member stays a member
EscapeQuotes(text) ==
  [k \in DOMAIN text |->
     IF text[k].t = "member" THEN [t |-> "escaped"] ELSE text[k]]

\* FixedOllamaDocumentProcessor.clean_json_response (ollama_processor_fixed)
clean_json_response(response_text) ==
  LET block == FirstObject(NestedBlocks(response_text, 1)
                           \o LazyBlocks(response_text, 1))
      fixed_text == EscapeQuotes(RemoveTrailingCommas(response_text))
  IN IF response_text = <<>> THEN NoString
     ELSE IF block.found THEN block
     ELSE IF json_object(BraceSlice(response_text)).ok
          THEN String(BraceSlice(response_text))
     ELSE IF /\ response_text[1] = T_lb
             /\ response_text[Len(response_text)] = T_rb
             /\ json_object(fixed_text).ok
          THEN String(fixed_text)
     ELSE NoString

\* FixedOllamaDocumentProcessor.parse_ollama_response (ollama_processor_fixed):
\* each field has the quoted-key pattern only
fixed_parse_ollama_response(response_text) ==
  LET direct == json_object(response_text)
      cleaned_json == clean_json_response(response_text)
      extracted_data ==
        [key \in {f \in regex_fields :
                    \E k \in DOMAIN response_text :
                      response_text[k] = Member(f, "quoted")} |-> "quoted"]
  IN IF response_text = <<>> THEN NoRecord
     ELSE IF direct.ok THEN Record("direct", direct.val)
     ELSE IF cleaned_json.found
          THEN Record("extracted", json_object(cleaned_json.text).val)
     ELSE IF DOMAIN extracted_data # {}
          THEN Record("regex", extracted_data)
     ELSE NoRecord

\* ------------------------------------------------------------------------
\* Functions of the analysis, each called on its own
\* ------------------------------------------------------------------------
\* the longest text, in words
MaxWords == 7

\* a text of n words; its k-th word is written k
Texts == {[k \in 1..n |-> k] : n \in 0..MaxWords}

Returned(v) == [state |-> "returned", val |-> v]
Raised == [state |-> "raised"]

\* DocumentChunker(chunk_size, overlap_size).chunk_document(text, max_pages)
ChunkCalls ==
  {[fn |-> "chunk_document", words |-> w, chunk_size |-> c,
    overlap_size |-> o, max_pages |-> m] :
     w \in Texts, c \in 1..ChunkSize, o \in 0..OverlapSize,
     m \in 1..MaxPages}

\* the longest title, and how far a summary goes over the maximum
MaxTitle == 250
MaxOver == 5

\* a text of n characters
TextOf(n) == [k \in 1..n |-> "x"]

\* _validate_and_clean(data, filename)
ValidateCalls ==
  {[fn |-> "_validate_and_clean",
    data |-> [title |-> TextOf(t), category |-> c, summary |-> TextOf(n)],
    filename |-> f] :
     t \in {0, 2, 3, MaxTitle},
     c \in {"", "AI", "Machine Learning"},
     n \in {0, summary_min_length - 1, summary_min_length,
            summary_max_length, summary_max_length + 1,
            summary_max_length + MaxOver},
     f \in FileNames}

\* the most records in a corpus file or in one side of a conflict
MaxDocs == 2

\* the lines of n records numbered from first on; the last one carries a
\* comma if more follows
DocLines(first, n, more) ==
  [k \in 1..n |-> L_doc(first + k - 1, k < n \/ more)]

\* a file as save_documents writes it
Dumped(n) == <<L_open>> \o DocLines(1, n, FALSE) \o <<L_close>>

\* a file that Git left with a conflict at the end of the array: shared
\* records, then the records of the two sides between the markers
Conflicted(shared, ours, theirs) ==
  <<L_open>> \o DocLines(1, shared, TRUE) \o <<L_head>>
  \o DocLines(shared + 1, ours, FALSE) \o <<L_sep>>
  \o DocLines(shared + 1, theirs, FALSE) \o <<L_end, L_close>>

\* the contents of data/documents.json: none, written whole, cut short by
\* an interrupted write, or left with a merge conflict
CorpusFiles ==
  {NoFile}
  \cup {Dumped(n) : n \in 0..MaxDocs}
  \cup UNION {{SubSeq(Dumped(n), 1, k) : k \in 1..(n + 1)} :
                n \in 1..MaxDocs}
  \cup {Conflicted(shared, ours, theirs) :
          shared \in 0..MaxDocs, ours \in 0..MaxDocs, theirs \in 1..MaxDocs}

\* load_existing_documents() of a processor
LoadCalls ==
  {[fn |-> "load_existing_documents", processor |-> p, content |-> c] :
     p \in {"fixed", "fallback"}, c \in CorpusFiles}

\* the keys of the members of a response, in the order an object lists
\* them, and how many of them the responses use
AllKeys == <<"title", "summary", "category", "pages", "difficulty">>
MaxKeys == 4

\* the model writes a page count bare and every other value in quotes
ValueOf(key) == IF key = "pages" THEN "bare" ELSE "quoted"

\* the members of the keys numbered in S from k on, with their commas
RECURSIVE Listed(_, _)
Listed(S, k) ==
  IF k > MaxKeys THEN <<>>
  ELSE IF k \in S
       THEN <<Member(AllKeys[k], ValueOf(AllKeys[k]))>>
            \o (IF \E j \in S : j > k THEN <<T_comma>> ELSE <<>>)
            \o Listed(S, k + 1)
       ELSE Listed(S, k + 1)

\* an object as a model writes it: possibly with a comma after the last
\* member, possibly cut before the closing brace
Object(S, trailing, closed) ==
  <<T_lb>> \o Listed(S, 1)
  \o (IF trailing THEN <<T_comma>> ELSE <<>>)
  \o (IF closed THEN <<T_rb>> ELSE <<>>)

\* what precedes the object: nothing, prose, a reasoning section (closed,
\* holding braces, or left open), or lines `Key: value`
Before ==
  {<<>>, <<T_word>>, <<T_think, T_word, T_unthink>>,
   <<T_think, T_lb, T_word, T_rb, T_unthink>>, <<T_think, T_word>>}
  \cup {[k \in 1..n |-> Label(AllKeys[k])] : n \in 1..min_fields}

\* what follows the object: nothing, prose, or prose and an empty object
After == {<<>>, <<T_word>>, <<T_word, T_lb, T_rb>>}

\* the responses of the model
ResponseTexts ==
  {b \o o \o a :
     b \in Before,
     o \in {<<>>} \cup {Object(S, trailing, closed) :
                          S \in SUBSET (1..MaxKeys),
                          trailing \in BOOLEAN, closed \in BOOLEAN},
     a \in After}

\* parse_ollama_response(response_text) of a processor
ParseCalls ==
  {[fn |-> "parse_ollama_response", processor |-> p, response_text |-> t] :
     p \in {"ultimate", "ollama_processor_fixed"}, t \in ResponseTexts}

\* what the service and the parser can make of one pass: the behaviours
\* of the service, and the empty object
PassAnswers(pass) ==
  {Respond(service, pass) : service \in Services}
  \cup {ServiceText("json", JObj(EmptyDict))}

\* analyze_chunk(chunk), given the answer to each of its passes
AnalyzeCalls ==
  {[fn |-> "analyze_chunk", responses |-> r] :
     r \in {q \in [PassSet -> UNION {PassAnswers(pass) : pass \in PassSet}] :
              \A pass \in PassSet : q[pass] \in PassAnswers(pass)}}

\* the most chunk analyses handed to aggregate_results
MaxChunks == 3

\* the complexity levels a chunk reports; the empty one stands for a chunk
\* that reports none
Levels == {<<>>, W_basic, W_advanced}

\* the digits that tell the chunks apart
Digits == <<"1", "2", "3", "4", "5">>

\* the analysis of chunk i: its own title, summary, category and keyword,
\* passes of 4 successful, and a complexity level
ChunkAnalysis(i, passes, level) ==
  [title |-> <<"t", Digits[i]>>,
   authors |-> <<>>,
   summary |-> <<"s", Digits[i]>>,
   category |-> Digits[i],
   keywords |-> <<Digits[i]>>,
   key_concepts |-> <<>>,
   technical_details |->
     JObj(IF level = <<>> THEN EmptyDict
          ELSE [k \in {"complexity_level"} |-> JStr(level)]),
   business_context |-> JObj(EmptyDict),
   confidence_score |-> Frac(passes, 4)]

\* aggregate_results(chunk_results)
AggregateCalls ==
  {[fn |-> "aggregate_results", chunk_results |-> rs] :
     rs \in UNION {{[i \in 1..n |-> ChunkAnalysis(i, ps[i], ls[i])] :
                      ps \in [1..n -> 0..4], ls \in [1..n -> Levels]} :
                   n \in 0..MaxChunks}}

\* ------------------------------------------------------------------------
\* A whole run as a function of the persisted state it starts from, when
\* no other process touches the files, the service answers every pass with
\* an object, and every commit succeeds. doc_infos[f][c] is what
\* self.process_document(filepath) returns for file f of content c.
\* ------------------------------------------------------------------------
\* the loop of scan_and_process over the files in the order of the glob:
\* the local collections after it
RECURSIVE ScanLoop(_, _, _, _, _)
ScanLoop(present, pdf_list, force, loaded, doc_infos) ==
  IF pdf_list = <<>> THEN loaded
  ELSE LET f == Head(pdf_list)
           current_hash == present[f]
       IN IF NeedsProcessing(force, loaded.processed_files, f, current_hash)
          THEN ScanLoop(present, Tail(pdf_list), force,
                 [existing_documents |->
                    WithoutFilename(loaded.existing_documents, f),
                  new_documents |->
                    Append(loaded.new_documents, doc_infos[f][present[f]]),
                  processed_files |->
                    [loaded.processed_files EXCEPT ![f] = current_hash],
                  updated |-> TRUE],
                 doc_infos)
          ELSE ScanLoop(present, Tail(pdf_list), force, loaded, doc_infos)

\* FixedOllamaDocumentProcessor.scan_and_process: the persisted corpus and
\* registry after the run
scan_and_process(present, pdf_list, known, corpus, force, doc_infos) ==
  LET after == ScanLoop(present, pdf_list, force,
                 [existing_documents |-> IF force THEN <<>> ELSE corpus,
                  new_documents |-> <<>>,
                  processed_files |-> known,
                  updated |-> FALSE],
                 doc_infos)
  IN IF after.updated \/ force
     THEN [corpus |-> SortByFilename(after.existing_documents
                                     \o after.new_documents),
           registry |-> after.processed_files]
     ELSE [corpus |-> corpus, registry |-> known]

\* files_to_process of scan_and_process_incrementally
RECURSIVE FilesToProcess(_, _, _, _)
FilesToProcess(present, pdf_list, force, known) ==
  IF pdf_list = <<>> THEN <<>>
  ELSE (IF NeedsProcessing(force, known, Head(pdf_list),
                           present[Head(pdf_list)])
        THEN <<Head(pdf_list)>> ELSE <<>>)
       \o FilesToProcess(present, Tail(pdf_list), force, known)

\* the loop over files_to_process: process_single_document_with_commit
\* saves the corpus and the registry for each file
RECURSIVE SingleLoop(_, _, _, _)
SingleLoop(present, to_process, saved, doc_infos) ==
  IF to_process = <<>> THEN saved
  ELSE LET f == Head(to_process)
       IN SingleLoop(present, Tail(to_process),
            [corpus |-> SortByFilename(
                          Append(WithoutFilename(saved.corpus, f),
                                 doc_infos[f][present[f]])),
             registry |-> [saved.registry EXCEPT ![f] = present[f]]],
            doc_infos)

\* IncrementalOllamaProcessor.scan_and_process_incrementally: the
\* persisted corpus and registry after the run
scan_and_process_incrementally(present, pdf_list, known, corpus, force, doc_infos) ==
  SingleLoop(present, FilesToProcess(present, pdf_list, force, known),
             [corpus |-> corpus, registry |-> known], doc_infos)

\* the orders in which the glob can list the files that exist
GlobOrders(present) ==
  LET there == {f \in FileNames : present[f] # 0}
  IN {order \in UNION {[1..n -> there] : n \in {Cardinality(there)}} :
        \A i, j \in DOMAIN order : i # j => order[i] # order[j]}

\* the corpus earlier runs have left when recorded[f] is the content the
\* record of f was computed from, 0 for a file without a record
RECURSIVE StartCorpus(_, _, _)
StartCorpus(names, recorded, doc_infos) ==
  IF names = {} THEN <<>>
  ELSE LET f == CHOOSE g \in names :
                  \A h \in names \ {g} : FilenameLess[g][h]
       IN (IF recorded[f] = 0 THEN <<>>
           ELSE <<doc_infos[f][recorded[f]]>>)
          \o StartCorpus(names \ {f}, recorded, doc_infos)

\* both runs from the start the call describes
BothRuns(run, corpus, doc_infos) ==
  [batch |-> scan_and_process(run.present, run.pdf_list, run.known,
                              corpus, run.force, doc_infos),
   incremental |->
     scan_and_process_incrementally(run.present, run.pdf_list, run.known,
                                    corpus, run.force, doc_infos)]

\* both runs, every file analysed by a service that answers with objects
RunBoth(run, doc_infos) ==
  BothRuns(run, StartCorpus(FileNames, run.recorded, doc_infos), doc_infos)

\* one run of the batch processor and one of the incremental processor
\* from the same files, registry and corpus
RunCalls ==
  UNION {{[fn |-> "scan_and_process", present |-> present,
           pdf_list |-> order, known |-> known, recorded |-> recorded,
           force |-> force] :
            order \in GlobOrders(present),
            known \in [FileNames -> 0..NumHashes],
            recorded \in [FileNames -> 0..NumHashes],
            force \in BOOLEAN} :
         present \in [FileNames -> 0..NumHashes]}

Calls ==
  ChunkCalls \cup ValidateCalls \cup LoadCalls \cup ParseCalls
  \cup AnalyzeCalls \cup AggregateCalls \cup RunCalls

FunctionInit ==
  /\ PipelineInit
  /\ variant = "fixed"
  /\ documents_dir_exists
  /\ files = NoRegistry
  /\ NoPrompting
  /\ call \in Calls
  /\ ret = NoRet

CallChunkDocument ==
  /\ call.fn = "chunk_document"
  /\ ret = NoRet
  /\ ret' = Returned(chunk_document(call.words, call.chunk_size,
                                     call.overlap_size, call.max_pages))
  /\ UNCHANGED <<pipeline, call, prompting>>

CallValidateAndClean ==
  /\ call.fn = "_validate_and_clean"
  /\ ret = NoRet
  /\ ret' = Returned(_validate_and_clean(call.data, Chars(call.filename)))
  /\ UNCHANGED <<pipeline, call, prompting>>

CallLoadExistingDocuments ==
  /\ call.fn = "load_existing_documents"
  /\ ret = NoRet
  /\ LET loaded == IF call.processor = "fallback"
                   THEN fallback_load_existing_documents(call.content)
                   ELSE load_existing_documents(call.content)
     IN ret' = IF loaded.ok THEN Returned(loaded.val) ELSE Raised
  /\ UNCHANGED <<pipeline, call, prompting>>

CallParseOllamaResponse ==
  /\ call.fn = "parse_ollama_response"
  /\ ret = NoRet
  /\ ret' = Returned(IF call.processor = "ultimate"
                     THEN parse_ollama_response(call.response_text)
                     ELSE fixed_parse_ollama_response(call.response_text))
  /\ UNCHANGED <<pipeline, call, prompting>>

CallAnalyzeChunk ==
  /\ call.fn = "analyze_chunk"
  /\ ret = NoRet
  /\ LET result == analyze_chunk(call.responses)
     IN ret' = IF result.ok THEN Returned(result.val) ELSE Raised
  /\ UNCHANGED <<pipeline, call, prompting>>

CallAggregateResults ==
  /\ call.fn = "aggregate_results"
  /\ ret = NoRet
  /\ LET result == aggregate_results(call.chunk_results)
     IN ret' = IF result.ok THEN Returned(result.val) ELSE Raised
  /\ UNCHANGED <<pipeline, call, prompting>>

CallScanAndProcess ==
  /\ call.fn = "scan_and_process"
  /\ ret = NoRet
  /\ ret' = Returned(
       RunBoth(call, [f \in FileNames |-> [c \in Contents |->
                        process_document(f, c, "good").val]]))
  /\ UNCHANGED <<pipeline, call, prompting>>

FunctionNext ==
  \/ CallChunkDocument
  \/ CallValidateAndClean
  \/ CallLoadExistingDocuments
  \/ CallParseOllamaResponse
  \/ CallAnalyzeChunk
  \/ CallAggregateResults
  \/ CallScanAndProcess

FunctionSpec == FunctionInit /\ [][FunctionNext]_vars

\* ------------------------------------------------------------------------
\* OllamaClient.generate_response, prompt after prompt
\* ------------------------------------------------------------------------
\* the default of the parameter max_retries
max_retries == 3

\* the most prompts of one analyzer: analyze_chunk asks pass after pass
MaxPrompts == 3

\* 2 ** n
RECURSIVE Pow2(_)
Pow2(n) == IF n = 0 THEN 1 ELSE 2 * Pow2(n - 1)

\* response.get('response', '') of what client.generate returns: no text,
\* a text, a text between spaces
ServiceTexts == {<<>>, <<"a">>, <<" ", "a", " ">>}

ReturnedNone == [state |-> "returned_none"]

\* `if attempt < max_retries - 1` before time.sleep
SleepsAfter_every(failed_attempt) == TRUE

SleepsAfter(failed_attempt) == failed_attempt < max_retries - 1

PromptInit ==
  /\ PipelineInit
  /\ variant = "fixed"
  /\ documents_dir_exists
  /\ files = NoRegistry
  /\ NoFunctionCall
  /\ NoPrompting

\* _analyze_pass calls generate_response(prompt): range(max_retries)
\* gives the first attempt, or none
Generate ==
  /\ gpc = "idle"
  /\ Len(answered) < MaxPrompts
  /\ attempt' = 0
  /\ service_calls' = <<>>
  /\ sleeps' = <<>>
  /\ response' = NoRet
  /\ gpc' = IF 0 < max_retries THEN "try" ELSE "exhausted"
  /\ UNCHANGED <<pipeline, function_call, answered>>

\* client.generate returns: return response.get('response', '').strip()
ServiceReturns ==
  /\ gpc = "try"
  /\ \E text \in ServiceTexts :
       /\ service_calls' = Append(service_calls, Return(text))
       /\ response' = Returned(Strip(text))
  /\ gpc' = "done"
  /\ UNCHANGED <<pipeline, function_call, attempt, sleeps, answered>>

\* client.generate raises: except Exception
ServiceRaises ==
  /\ gpc = "try"
  /\ service_calls' = Append(service_calls, Raise)
  /\ gpc' = IF SleepsAfter(attempt) THEN "sleep" ELSE "next"
  /\ UNCHANGED <<pipeline, function_call, attempt, sleeps, response,
                 answered>>

\* time.sleep(2 ** attempt)
Sleep ==
  /\ gpc = "sleep"
  /\ sleeps' = Append(sleeps, Pow2(attempt))
  /\ gpc' = "next"
  /\ UNCHANGED <<pipeline, function_call, attempt, service_calls, response,
                 answered>>

\* the for statement takes the next value of range(max_retries)
NextAttempt ==
  /\ gpc = "next"
  /\ attempt + 1 < max_retries
  /\ attempt' = attempt + 1
  /\ gpc' = "try"
  /\ UNCHANGED <<pipeline, function_call, service_calls, sleeps, response,
                 answered>>

\* range(max_retries) is exhausted: return None
ReturnNone ==
  /\ \/ gpc = "exhausted"
     \/ gpc = "next" /\ ~(attempt + 1 < max_retries)
  /\ response' = ReturnedNone
  /\ gpc' = "done"
  /\ UNCHANGED <<pipeline, function_call, attempt, service_calls, sleeps,
                 answered>>

\* _analyze_pass has the response; the analyzer goes on
Answered ==
  /\ gpc = "done"
  /\ answered' = Append(answered, response)
  /\ gpc' = "idle"
  /\ UNCHANGED <<pipeline, function_call, attempt, service_calls, sleeps,
                 response>>

PromptNext ==
  \/ Generate
  \/ ServiceReturns
  \/ ServiceRaises
  \/ Sleep
  \/ NextAttempt
  \/ ReturnNone
  \/ Answered

\* every call of the service returns or raises, and the interpreter goes
\* on with the statements of generate_response
PromptSpec ==
  /\ PromptInit
  /\ [][PromptNext]_vars
  /\ WF_vars(ServiceReturns \/ ServiceRaises)
  /\ WF_vars(Sleep)
  /\ WF_vars(NextAttempt)
  /\ WF_vars(ReturnNone)

\* chunk_document has returned
Chunked == call.fn = "chunk_document" /\ ret.state = "returned"

InjectedOverlap(chunks, i) ==
  IF chunks[i].overlap_with_previous
  THEN Min(call.overlap_size, (i - 1) * call.chunk_size)
  ELSE 0

\* the words of the chunks from the i-th on, in order, without the
\* injected overlaps
RECURSIVE WithoutOverlaps(_, _)
WithoutOverlaps(chunks, i) ==
  IF i > Len(chunks) THEN <<>>
  ELSE SubSeq(chunks[i].content, InjectedOverlap(chunks, i) + 1,
              Len(chunks[i].content))
       \o WithoutOverlaps(chunks, i + 1)

Validated == call.fn = "_validate_and_clean" /\ ret.state = "returned"

\* C11: for every record and file name, the summary of the validated record
\* is no shorter than the minimum and no longer than the maximum, whether
\* it was kept, truncated with an ellipsis, or made of title and category.
C11_SummaryLengthBounded ==
  Validated =>
    /\ Len(ret.val.summary) >= summary_min_length
    /\ Len(ret.val.summary) <= summary_max_length

\* the lines of a corpus file outside its conflicting sections
WithoutConflicts(content) ==
  IF content = NoFile THEN <<>> ELSE clean_lines(content, FALSE)

\* C12: loading the persisted corpus never raises: the conflicting sections
\* of a file with merge-conflict markers are stripped before it is parsed,
\* and a content that still does not parse gives an empty corpus.
C12_LoadNeverRaises ==
  (call.fn = "load_existing_documents" /\ ret # NoRet) =>
    /\ ret.state = "returned"
    /\ LET parsed == json_loads(WithoutConflicts(call.content))
       IN ret.val = IF parsed.ok THEN parsed.val ELSE <<>>


\* parse_ollama_response has returned
Parsed == call.fn = "parse_ollama_response" /\ ret.state = "returned"

\* the five strategies in the order of the list: the direct parse, the
\* parse without reasoning section and tags, the parse from the first
\* opening to the last closing brace, the parse after the repair, and the
\* regular expressions; the record of the first one that succeeds
FirstSuccess(text) ==
  LET direct == json_object(text)
      untagged == json_object(remove_tags(after_think(text)))
      sliced == json_object(BraceSlice(text))
      repaired == json_object(FixCommonIssues(BraceSlice(text)))
      fields == extract_fields_with_regex(text)
  IN IF text = <<>> THEN NoRecord
     ELSE IF direct.ok THEN Record("direct", direct.val)
     ELSE IF untagged.ok THEN Record("untagged", untagged.val)
     ELSE IF sliced.ok THEN Record("sliced", sliced.val)
     ELSE IF repaired.ok THEN Record("fixed", repaired.val)
     ELSE IF Cardinality(DOMAIN fields) >= min_fields
          THEN Record("regex", fields)
     ELSE NoRecord

\* C17: for every response the parser of the ultimate processor returns
\* the record of the lowest-numbered strategy that succeeds on it, the
\* strategies being numbered direct parse, parse without reasoning section
\* and tags, first-to-last brace, repair, regular expressions; it returns
\* none when no strategy succeeds.
C17_FirstSuccessReturned ==
  Parsed /\ call.processor = "ultimate" =>
    LET want == FirstSuccess(call.response_text)
    IN IF want = NoRecord THEN ret.val = NoRecord
       ELSE ret.val # NoRecord /\ ret.val.val = want.val

\* no parse of the whole text, of its untagged rest, of its braces or of
\* its repaired braces succeeds
StructuredFail(text) ==
  /\ ~json_object(text).ok
  /\ ~json_object(remove_tags(after_think(text))).ok
  /\ ~json_object(BraceSlice(text)).ok
  /\ ~json_object(FixCommonIssues(BraceSlice(text))).ok

\* prose only: no brace, no member, no `Key: value` line
PlainText(text) == \A k \in DOMAIN text : text[k] = T_word

\* C18: when every structured parse of a response fails, a parser returns
\* a record made by the regular expressions only if it has at least
\* min_fields (3) fields, and plain text yields none.
C18_RegexNeedsMinFields ==
  Parsed /\ StructuredFail(call.response_text) =>
    /\ ret.val.by = "regex" =>
         Cardinality(DOMAIN ret.val.val) >= min_fields
    /\ PlainText(call.response_text) => ret.val = NoRecord


\* generate_response has returned for the prompt
Responded == gpc = "done"

\* the calls of the service so far are at most max_retries, none follows
\* a call that returned, and the waits so far are 1, 2, 4, ... seconds,
\* one after each failed attempt but the last possible one
RetriesBounded ==
  /\ Len(service_calls) <= max_retries
  /\ \A k \in 1..(Len(service_calls) - 1) : ~service_calls[k].ok
  /\ \A k \in DOMAIN sleeps : sleeps[k] = Pow2(k - 1)
  /\ Len(sleeps) <= max_retries - 1
  /\ Len(sleeps) <= Len(service_calls)

\* what is returned: the stripped text of the one call that returned, with
\* a wait after each failed attempt before it, or failure after
\* max_retries failed attempts with a wait after each but the last
FirstResponseReturned ==
  Responded =>
    IF response = ReturnedNone
    THEN /\ Len(service_calls) = max_retries
         /\ \A k \in DOMAIN service_calls : ~service_calls[k].ok
         /\ Len(sleeps) = max_retries - 1
    ELSE /\ service_calls # <<>>
         /\ service_calls[Len(service_calls)].ok
         /\ response =
              Returned(Strip(service_calls[Len(service_calls)].val))
         /\ Len(sleeps) = Len(service_calls) - 1

\* C16: for one prompt generate_response calls the service at most
\* max_retries (3) times, returns the first response obtained without an
\* exception, waits 2^k seconds after failed attempt k only when another
\* attempt follows, returns failure only after max_retries failed
\* attempts, and always returns when each service call returns or raises.
C16_BoundedRetriesWithBackoff ==
  /\ [](RetriesBounded /\ FirstResponseReturned)
  /\ (gpc \in {"try", "sleep", "next", "exhausted"}) ~> Responded

\* the third attempt succeeds after waits of 1 and 2 seconds
C16_Witness ==
  /\ Responded
  /\ response = Returned(<<"a">>)
  /\ Len(service_calls) = max_retries
  /\ sleeps = <<1, 2>>

\* the records of a corpus are in ascending order of filename
SortedByFilename(corpus) ==
  \A i \in DOMAIN corpus : \A j \in DOMAIN corpus :
    i < j => ~FilenameLess[corpus[j].filename][corpus[i].filename]

\* C21: every corpus a run has written, in either copy, is sorted in
\* ascending order of filename, whatever the order of discovery and
\* whatever the corpus loaded at the start.
C21_CorpusSorted ==
  SortedByFilename(corpusData) /\ SortedByFilename(corpusDist)

\* analyze_chunk has returned or raised
AnalyzedChunk == call.fn = "analyze_chunk" /\ ret # NoRet

\* the pass yields a non-empty parsed record
Yielded(pass) ==
  LET parsed == _analyze_pass(call.responses[pass])
  IN parsed.t = "object" /\ DOMAIN parsed.f # {}

\* C22: analyze_chunk runs its four passes to the end whatever the earlier
\* passes gave, so it returns a result; a pass that did not yield a
\* non-empty record leaves its fields of the result at their defaults; the
\* confidence is the number of passes that yielded one, divided by 4, and
\* lies in [0, 1].
C22_FourPassesConfidence ==
  AnalyzedChunk =>
    /\ ret.state = "returned"
    /\ ~Yielded("basic_info") =>
         /\ ret.val.title = <<>>
         /\ ret.val.authors = <<>>
         /\ ret.val.summary = <<>>
         /\ ret.val.category = ""
    /\ ~Yielded("keywords") =>
         ret.val.keywords = <<>> /\ ret.val.key_concepts = <<>>
    /\ ~Yielded("technical") => ret.val.technical_details = JObj(EmptyDict)
    /\ ~Yielded("business") => ret.val.business_context = JObj(EmptyDict)
    /\ ret.val.confidence_score =
         Frac(Cardinality({pass \in PassSet : Yielded(pass)}), 4)
    /\ 0 <= ret.val.confidence_score[1]
    /\ ret.val.confidence_score[1] <= ret.val.confidence_score[2]

\* aggregate_results has returned
Aggregated == call.fn = "aggregate_results" /\ ret.state = "returned"

\* chunk i has the highest confidence, and no chunk before it has as much
HighestFirst(rs, i) ==
  /\ \A j \in 1..Len(rs) :
       rs[j].confidence_score[1] * rs[i].confidence_score[2]
         <= rs[i].confidence_score[1] * rs[j].confidence_score[2]
  /\ \A j \in 1..(i - 1) : rs[j].confidence_score # rs[i].confidence_score

\* C23: for every non-empty list of chunk analyses the title, the summary
\* and the category of the aggregate are those of the chunk with the
\* highest confidence, the one with the smallest index when several share
\* the highest confidence.
C23_ScalarsFromBestChunk ==
  Aggregated /\ call.chunk_results # <<>> =>
    \E i \in 1..Len(call.chunk_results) :
      /\ HighestFirst(call.chunk_results, i)
      /\ ret.val.title = call.chunk_results[i].title
      /\ ret.val.summary = call.chunk_results[i].summary
      /\ ret.val.category = call.chunk_results[i].category

\* the second and the third chunk share the highest confidence, and the
\* aggregate has the title of the second
C23_Witness ==
  /\ Aggregated
  /\ Len(call.chunk_results) = 3
  /\ call.chunk_results[1].confidence_score = Frac(1, 4)
  /\ call.chunk_results[2].confidence_score = Frac(3, 4)
  /\ call.chunk_results[3].confidence_score = Frac(3, 4)
  /\ ret.val.title = call.chunk_results[2].title

\* the complexity levels the chunks report, in chunk order
ReportedLevels == ComplexityLevels(ComplexityValues(call.chunk_results))

\* C24: when chunks report complexity levels, the level of the aggregate
\* is the one that the largest number of chunks report, and among the
\* levels with the largest count the one that occurs first in chunk order.
C24_ComplexityByMajority ==
  Aggregated /\ ReportedLevels # <<>> =>
    \E i \in DOMAIN ReportedLevels :
      /\ ret.val.technical_details["complexity_level"]
           = JStr(ReportedLevels[i])
      /\ \A j \in DOMAIN ReportedLevels :
           Count(ReportedLevels, ReportedLevels[j])
             <= Count(ReportedLevels, ReportedLevels[i])
      /\ \A j \in 1..(i - 1) :
           Count(ReportedLevels, ReportedLevels[j])
             < Count(ReportedLevels, ReportedLevels[i])

\* two chunks report different levels, one each, and the aggregate has
\* the level of the first
C24_Witness ==
  /\ Aggregated
  /\ ReportedLevels = <<W_advanced, W_basic>>
  /\ ret.val.technical_details["complexity_level"] = JStr(W_advanced)

\* the fields of an aggregate
AggregateFields ==
  {"title", "authors", "summary", "category", "keywords", "key_concepts",
   "technical_details", "business_context"}

\* C25: the confidence of the aggregate is the arithmetic mean of the
\* confidences of the chunks and lies in [0, 1]; the aggregate of no chunk
\* has confidence 0 and every field of an aggregate.
C25_MeanConfidence ==
  Aggregated =>
    LET n == Len(call.chunk_results)
        total == SumConfidence(call.chunk_results)
        confidence == ret.val.confidence_score
    IN /\ 0 <= confidence[1]
       /\ confidence[1] <= confidence[2]
       /\ confidence[1] * total[2] * n = total[1] * confidence[2]
       /\ n = 0 => confidence = <<0, 1>>
       /\ n = 0 => AggregateFields \subseteq DOMAIN ret.val

\* C26: after every completed run of scan_and_process, every registry
\* entry whose file exists has a record with the name of the file in the
\* persisted corpus; also when the load of the run gave an empty corpus
\* for an unparseable file, and when the run was forced.
C26_RegisteredFilesHaveRecords ==
  Completed =>
    \A f \in FileNames :
      registry[f] # 0 /\ files[f] # 0 => Named(corpusData, f) # {}

\* C27: after a completed run, for every record the run computed and
\* persisted, the hash the registry stores for the file is the hash of the
\* content the record was computed from, whatever other processes did to
\* the file during the run; so a file whose content is no longer the one of
\* its record is selected by the next run.
C27_RegistryHashOfRecordContent ==
  Completed =>
    \A d \in computed :
      Persisted(d) =>
        /\ registry[d.filename] = d.content
        /\ files[d.filename] \notin {0, d.content} =>
             NeedsProcessing(FALSE, registry, d.filename, files[d.filename])

\* the step in which process_single_document_with_commit returns False
\* for the file at the head of files_to_process
ReportsFailure ==
  /\ variant = "incremental"
  /\ pc \in {"single", "rehash", "commit"}
  /\ files_to_process # <<>>
  /\ pc' = "single"
  /\ files_to_process' = Tail(files_to_process)
  /\ successful_processes' = successful_processes

\* C28: when process_single_document_with_commit reports failure for a
\* file, the persisted registry holds no new hash for it and neither copy
\* of the persisted corpus holds a record the run computed for it; so a run
\* that is not forced, over unchanged files, selects the file again.
C28_FailureLeavesNoTrace ==
  [][ReportsFailure =>
       LET f == Head(files_to_process)
       IN /\ registry'[f] = startRegistry'[f]
          /\ \A d \in computed' :
               d.filename = f =>
                 ~Holds(corpusData', d) /\ ~Holds(corpusDist', d)
          /\ envQuiet' /\ ~forced' /\ files'[f] # 0 =>
               NeedsProcessing(FALSE, registry', f, files'[f])]_vars

\* both runs have ended
RanBoth == call.fn = "scan_and_process" /\ ret.state = "returned"

\* C29: from the same corpus, registry and files, with every file
\* processed and committed successfully, the batch run and the incremental
\* run end with the same persisted corpus and the same registry, forced or
\* not, also when the corpus holds records of files that are gone.
C29_BatchEqualsIncremental ==
  RanBoth => ret.val.batch = ret.val.incremental

\* the records of the corpus with the given filename, in order
RecordsOf(corpus, f) == SelectSeq(corpus, LAMBDA d : d.filename = f)

\* a step of a non-forced run of the batch or the incremental processor
NotForcedStep ==
  variant \in {"fixed", "incremental"} /\ pc' # "idle" /\ ~forced'

============================================================================
